---- MODULE Spec2Model ----
(***************************************************************************)
(* Reservation queue, scheduler loop, cancel/enqueue handlers and the      *)
(* protocol client's WAF retry loop of the reservation-sniping service.    *)
(*                                                                         *)
(* Time is counted in seconds.  The clock is observed on a grid of         *)
(* TickStep seconds; `now` saturates at MaxTime (every run_time of the     *)
(* model is <= MaxTime, so "due" is decided exactly).                      *)
(***************************************************************************)
EXTENDS Integers, Sequences, FiniteSets, TLC

\* ------------------------------------------------------------------ bounds
MaxIds == 2          \* reservation ids generated in one run
MaxTick == 2         \* clock horizon, in grid steps
MaxAppends == 502    \* appendLog calls in one run
MaxCycles == 2       \* refresh cycles in one run
MaxHours == 3        \* hours that pass in one run
MaxImports == 1      \* admin cookie imports in one run
MaxClock == 2        \* distinct clock readings in one run
MaxSaves == 3        \* SaveReservation calls in one run

\* ------------------------------------------------------- program constants
SleepCap == 30       \* 30 * time.Second, scheduler sleep cap
MaxRetries == 2      \* maxRetries passed to doRequestWithRetry
maxLogLines == 500   \* const maxLogLines
RefreshBelow == 2    \* 2 * time.Hour, refresh threshold, hours
SessionTTL == 24     \* 24 * time.Hour, TTL of a refreshed session, hours

TickStep == (2 * SleepCap) \div 3    \* the clock grid, in seconds
MaxExec == MaxIds                   \* attempts recorded in execLog
MaxTime == MaxTick * TickStep
RunTimes == {k * TickStep : k \in 0..MaxTick}

Ids == 1..MaxIds
UnknownId == MaxIds + 1            \* a path id no enqueue ever generated
NoOwner == ""                      \* ClerkUserID == "" (legacy entry)
Owners == {NoOwner, "u1"}          \* ClerkUserID of an enqueue request
Users == {NoOwner, "u1", "u2"}     \* X-Clerk-User-Id of a cancel request
Outcomes == {"ok", "no-offer", "no-table", "waf-blocked", "network"}

Min(a, b) == IF a < b THEN a ELSE b
Max(a, b) == IF a > b THEN a ELSE b

\* the value of an expression, bound once
Only(S) == CHOOSE r \in S : TRUE

VARIABLES
  now,        \* time.Now(), seconds, saturating at MaxTime
  records,    \* reservation:{id} -> serialized ScheduledReservation
  pending,    \* pending_reservations sorted set, as the ordered sequence
  byOwner,    \* reservations_by_owner:{owner} -> set of ids
  nextId,     \* GenerateReservationID at distinct clock readings: next id
  enq,        \* the /api/reserve handler (schedule branch) in flight
  can,        \* the DELETE /api/reservations/{id} handler in flight
  sched,      \* handleScheduledReservations: position and locals
  shutdown,   \* ctx cancelled (SIGINT/SIGTERM received)
  execLog,    \* history: the Reserve invocations of the scheduler, in order
  rq,         \* doRequestWithRetry: one call in flight
  ck,         \* the client's cookie session across one retried request
  rv,         \* one Reserve call: its candidate loop
  sl,         \* one slot choice: inputs and result
  vault,      \* credential vault: configured key, stored entry, last call
  tm,         \* one run-time calculation: window, reservation time, result
  hd,         \* POST /api/reserve: requests handled, reservations stored
  api,        \* the shared API value: Cookies, and the Reserve calls in flight
  lg,         \* the in-memory log: logMu, logLines, and the calls in flight
  rf,         \* the cookie refresher: WAF sessions in the store, position in the cycle
  sv,         \* POST /api/reserve handlers saving under clock-derived ids
  cr,         \* DELETE /api/reservations/{id}: the last request answered not-found
  vs,         \* booking-window resolver: cache entry and one call in flight
  us          \* usage callback: WebAppURL configured, and the POSTs issued

\* the variables of the protocol client and of the credential vault
extVars == <<ck, rv, sl, vault, tm, hd, api, lg, rf, sv, cr, vs, us>>

vars == <<now, records, pending, byOwner, nextId, enq, can, sched,
          shutdown, execLog, rq, extVars>>

queueVars == <<now, records, pending, byOwner, nextId, enq, can,
               sched, shutdown, execLog>>

\* ------------------------------------------------------ sorted set (KVS)
\* score = unix-millis of run_time
Score(rt) == rt * 1000

\* Redis orders a sorted set by score, then by member.
ZLess(a, b) ==
  \/ a.score < b.score
  \/ a.score = b.score /\ a.member < b.member

ZRem(z, m) == SelectSeq(z, LAMBDA e : e.member # m)

\* faulty variant: the new member is appended, whatever its score
ZAddTail(z, s, m) == Append(ZRem(z, m), [score |-> s, member |-> m])

\* faulty variant: the member is not added at all
ZAddLost(z, s, m) == z

ZAdd(z, s, m) ==
  LET z0 == ZRem(z, m)
      e  == [score |-> s, member |-> m]
      k  == Cardinality({i \in 1..Len(z0) : ZLess(z0[i], e)})
  IN  SubSeq(z0, 1, k) \o <<e>> \o SubSeq(z0, k + 1, Len(z0))

ZMembers(z) == {z[i].member : i \in 1..Len(z)}

\* faulty variant: the records are counted, not the sorted set
CountRecords == Cardinality(DOMAIN records)

CountPending == Len(pending)

\* faulty variant: the head of the descending range is taken
PeekIdLast(z) == IF z = <<>> THEN <<>> ELSE <<z[Len(z)].member>>

\* peek_next: the entry with the smallest score, or empty (<<>>)
PeekId(z) == IF z = <<>> THEN <<>> ELSE <<z[1].member>>

GetReservation(id) ==
  IF id \in DOMAIN records
  THEN <<[id |-> id, rt |-> records[id].rt, owner |-> records[id].owner]>>
  ELSE <<>>

GetNextReservation ==
  IF PeekId(pending) = <<>> THEN <<>> ELSE GetReservation(PeekId(pending)[1])

\* ids in the order of (run time, id)
RECURSIVE SortByRunTime(_, _)
SortByRunTime(recs, ids) ==
  IF ids = {} THEN <<>>
  ELSE LET first == CHOOSE i \in ids :
                      \A j \in ids :
                        \/ recs[i].rt < recs[j].rt
                        \/ recs[i].rt = recs[j].rt /\ i <= j
       IN  <<first>> \o SortByRunTime(recs, ids \ {first})

\* faulty variant: the owner filter is dropped
GetReservationsOfAnyUser(recs, index, user) ==
  SortByRunTime(recs, DOMAIN recs)

\* faulty variant: the owner's reservations in the order of their ids
GetReservationsInIdOrder(recs, index, user) ==
  LET ids == {i \in DOMAIN recs : user \in DOMAIN index /\ i \in index[user]}
  IN  CHOOSE s \in [1..Cardinality(ids) -> ids] :
        \A i, j \in 1..Cardinality(ids) : i < j => s[i] < s[j]

\* GetReservationsByClerkUser: the records of the ids in the user's set
GetReservationsByClerkUser(recs, index, user) ==
  SortByRunTime(recs, {i \in DOMAIN recs :
                         user \in DOMAIN index /\ i \in index[user]})

\* GetAllPendingReservations: the records of the sorted set's members
GetAllPendingReservations(recs, z) ==
  SelectSeq([i \in 1..Len(z) |-> z[i].member], LAMBDA m : m \in DOMAIN recs)

\* faulty variant: the range ends just before the current time
GetPendingBefore(recs, z, t) ==
  SelectSeq([i \in 1..Len(SelectSeq(z, LAMBDA e : e.score < Score(t))) |->
               SelectSeq(z, LAMBDA e : e.score < Score(t))[i].member],
            LAMBDA m : m \in DOMAIN recs)

\* GetPendingReservations: the records of the members whose score is at
\* most the current time (the range -inf..now of the sorted set)
GetPendingReservations(recs, z, t) ==
  GetAllPendingReservations(recs, SelectSeq(z, LAMBDA e : e.score <= Score(t)))


DropKey(f, k) == [x \in DOMAIN f \ {k} |-> f[x]]
PutKey(f, k, v) == [x \in DOMAIN f \cup {k} |-> IF x = k THEN v ELSE f[x]]

\* ------------------------------------------------------------ initial state
SchedIdle ==
  [pc |-> "loop", cand |-> <<>>, res |-> <<>>, snap |-> <<>>, sleep |-> 0,
   attempted |-> FALSE, done |-> <<>>]

EnqIdle == [pc |-> "idle", id |-> <<>>, rt |-> 0, owner |-> NoOwner]

CanIdle == [pc |-> "idle", id |-> <<>>]

RqIdle == [pc |-> "idle", attempt |-> 0, sent |-> <<>>, result |-> "none"]

QueueInit ==
  /\ now = 0
  /\ records = <<>>
  /\ pending = <<>>
  /\ byOwner = [o \in Owners \ {NoOwner} |-> {}]
  /\ nextId = 1
  /\ enq = EnqIdle
  /\ can = CanIdle
  /\ sched = SchedIdle
  /\ shutdown = FALSE
  /\ execLog = <<>>

CkIdle ==
  [pc |-> "idle", attempt |-> 0, jar |-> <<>>, prev |-> <<>>, lines |-> <<>>,
   rest |-> <<>>, orig |-> <<>>, req |-> <<>>]

RvIdle ==
  [pc |-> "idle", slots |-> <<>>, prefs |-> <<>>, times |-> <<>>,
   found |-> FALSE, k |-> 1, i |-> 1, best |-> 0, seen |-> {},
   failed |-> {}, result |-> "none", config |-> 0, token |-> "",
   sent |-> <<>>]

SlIdle == [pc |-> "idle", slots |-> <<>>, pref |-> <<>>, req |-> 0, idx |-> 0]

VaultIdle ==
  [key |-> "", entry |-> <<>>, ops |-> 0, op |-> "none", before |-> <<>>,
   setOk |-> TRUE, saved |-> <<>>,
   out |-> [ok |-> FALSE, err |-> "", auth |-> "", pay |-> 0]]

ApiIdle ==
  [no |-> 0, Cookies |-> <<>>,
   att |-> [g \in {"scheduler", "handler"} |->
              [pc |-> "idle", no |-> 0, venue |-> 0, tries |-> 0,
               sent |-> <<>>]]]

HdIdle == [calls |-> 0, status |-> 0, stored |-> <<>>]

TmIdle == [pc |-> "idle", bw |-> <<>>, r |-> 0, err |-> "", out |-> 0]

LgIdle ==
  [mu |-> "", lines |-> <<>>, appended |-> 0, snap |-> <<>>, snapAt |-> 0,
   pc |-> [g \in {"scheduler", "handler", "logs"} |-> "idle"]]

RfIdle ==
  [sessions |-> [v \in {1, 2} |-> <<>>], pc |-> "wait", idx |-> 0,
   cycles |-> 0, hours |-> 0, imports |-> 0, fetches |-> 0, data |-> 0,
   note |-> "", done |-> FALSE]

SvIdle ==
  [clock |-> 1, saves |-> 0, out |-> <<>>,
   h |-> [x \in {"h1", "h2"} |->
            [pc |-> "idle", id |-> 0, rt |-> 0, owner |-> "", dup |-> FALSE,
             alone |-> TRUE]]]

CrIdle == [status |-> 0, id |-> <<>>, user |-> ""]

VsIdle ==
  [pc |-> "idle", calls |-> 0, attempt |-> 0, cache |-> <<>>, out |-> <<>>,
   err |-> "", path |-> ""]

\* cfg.WebAppURL is not set: notifyUsageIncrement logs "skipped" and returns
UsIdle == [url |-> FALSE, calls |-> <<>>]

ExtInit ==
  /\ ck = CkIdle
  /\ rv = RvIdle
  /\ sl = SlIdle
  /\ vault = VaultIdle
  /\ tm = TmIdle
  /\ hd = HdIdle
  /\ api = ApiIdle
  /\ lg = LgIdle
  /\ rf = RfIdle
  /\ sv = SvIdle
  /\ cr = CrIdle
  /\ vs = VsIdle
  /\ us = UsIdle

Init == QueueInit /\ rq = RqIdle /\ ExtInit

\* ------------------------------------------------------------------ clock
Tick ==
  /\ \/ now < MaxTime
     \/ sched.sleep > 0
  /\ now' = Min(now + TickStep, MaxTime)
  /\ sched' = [sched EXCEPT !.sleep = Max(@ - TickStep, 0)]
  /\ UNCHANGED <<records, pending, byOwner, nextId, enq, can,
                 shutdown, execLog, rq, extVars>>

\* --------------------------------------- POST /api/reserve, schedule branch
\* The handler generates the id, builds the record and calls SaveReservation,
\* which writes the record, then the sorted-set and owner indexes.
EnqueueRecord(rt, owner) ==
  /\ enq.pc = "idle"
  /\ nextId <= MaxIds
  /\ nextId' = nextId + 1
  /\ records' = PutKey(records, nextId, [rt |-> rt, owner |-> owner])
  /\ enq' = [pc |-> "index", id |-> <<nextId>>, rt |-> rt, owner |-> owner]
  /\ UNCHANGED <<now, pending, byOwner, can, sched, shutdown,
                 execLog, rq, extVars>>

EnqueueIndex ==
  /\ enq.pc = "index"
  /\ pending' = ZAdd(pending, Score(enq.rt), enq.id[1])
  /\ byOwner' = IF enq.owner = NoOwner THEN byOwner
                ELSE [byOwner EXCEPT ![enq.owner] = @ \cup {enq.id[1]}]
  /\ enq' = EnqIdle
  /\ UNCHANGED <<now, records, nextId, can, sched, shutdown, execLog, rq, extVars>>

\* SaveReservation returns an error: the handler answers 500, the id is never
\* returned to the client; what was already written stays.
EnqueueFail ==
  /\ enq.pc = "index"
  /\ enq' = EnqIdle
  /\ UNCHANGED <<now, records, pending, byOwner, nextId, can, sched,
                 shutdown, execLog, rq, extVars>>

\* faulty variant: the sorted-set membership is left behind
DeleteZKeep(id) == pending' = pending

\* -------------------------------------------- DeleteReservation, by steps
\* Removes the sorted-set membership first, then the record together with
\* the owner-index membership.
DeleteZ(id) == pending' = ZRem(pending, id)

\* faulty variant: the owner-index membership is left behind
DeleteRecKeepIndex(id) ==
  /\ records' = DropKey(records, id)
  /\ byOwner' = byOwner

DeleteRec(id) ==
  /\ records' = DropKey(records, id)
  /\ byOwner' = IF id \in DOMAIN records /\ records[id].owner # NoOwner
                THEN [byOwner EXCEPT ![records[id].owner] = @ \ {id}]
                ELSE byOwner

\* ------------------------------------------------- GET /api/reservations
\* The ids of the response: the user's reservations, or all pending ones when
\* the X-Clerk-User-Id header is empty.
ListReservations(user) ==
  IF user # NoOwner
  THEN GetReservationsByClerkUser(records, byOwner, user)
  ELSE GetAllPendingReservations(records, pending)

\* ------------------------------------------ DELETE /api/reservations/{id}
\* A client can name an id a finished /api/reserve request generated, or
\* one that was never generated.
CancelIds ==
  ((1..(nextId - 1)) \ {enq.id[i] : i \in 1..Len(enq.id)}) \cup {UnknownId}

\* faulty variant: the ownership check is dropped
NotOwnedNever(res, user) == FALSE

\* clerkUserID != "" && res.ClerkUserID != clerkUserID
NotOwned(res, user) == user # NoOwner /\ res.owner # user

CancelGet(id, user) ==
  /\ can.pc = "idle"
  /\ LET res == GetReservation(id) IN
       /\ res # <<>>
       /\ ~NotOwned(res[1], user)
  /\ can' = [pc |-> "del_z", id |-> <<id>>]
  /\ UNCHANGED <<now, records, pending, byOwner, nextId, enq, sched,
                 shutdown, execLog, rq, extVars>>

CancelDelZ ==
  /\ can.pc = "del_z"
  /\ DeleteZ(can.id[1])
  /\ can' = [can EXCEPT !.pc = "del_rec"]
  /\ UNCHANGED <<now, records, byOwner, nextId, enq, sched, shutdown,
                 execLog, rq, extVars>>

CancelDelRec ==
  /\ can.pc = "del_rec"
  /\ DeleteRec(can.id[1])
  /\ can' = CanIdle
  /\ UNCHANGED <<now, pending, nextId, enq, sched, shutdown, execLog, rq, extVars>>

\* GetReservation finds nothing, or the reservation is another user's: the
\* handler answers 404 "Reservation not found" and returns.
CancelReject(id, user) ==
  /\ can.pc = "idle"
  /\ IF GetReservation(id) = <<>> THEN TRUE
     ELSE NotOwned(GetReservation(id)[1], user)
  /\ cr' = [status |-> 404, id |-> <<id>>, user |-> user]
  /\ UNCHANGED <<queueVars, rq, ck, rv, sl, vault, tm, hd, api, lg, rf, sv, vs, us>>

\* DeleteReservation returns an error: the handler answers 500; what was
\* already removed stays removed.
CancelDelFail ==
  /\ can.pc \in {"del_z", "del_rec"}
  /\ can' = CanIdle
  /\ UNCHANGED <<now, records, pending, byOwner, nextId, enq, sched,
                 shutdown, execLog, rq, extVars>>

\* ------------------------------------------- handleScheduledReservations
\* faulty variant: the due check is dropped
DueAlways(rt, t) == TRUE

\* nextRes.RunTime.After(now) is false
Due(rt, t) == ~(rt > t)

SleepDuration(rt, t) == Min(rt - t, SleepCap)

SchedSleep(d) ==
  [SchedIdle EXCEPT !.pc = "sleep", !.sleep = d]

\* Top of the loop: ctx.Done() returns; otherwise GetNextReservation reads
\* the head of the sorted set (nil on an empty set: sleep 30 s).
SchedPeek ==
  /\ sched.pc = "loop"
  /\ IF shutdown
     THEN sched' = [SchedIdle EXCEPT !.pc = "stopped"]
     ELSE IF PeekId(pending) = <<>>
     THEN sched' = SchedSleep(SleepCap)
     ELSE sched' = [SchedIdle EXCEPT !.pc = "peek_get",
                                     !.cand = PeekId(pending),
                                     !.snap = pending]
  /\ UNCHANGED <<now, records, pending, byOwner, nextId, enq, can, shutdown,
                 execLog, rq, extVars>>

\* GetNextReservation returns an error: the loop sleeps 30 s and re-peeks.
SchedPeekErr ==
  /\ sched.pc \in {"loop", "peek_get"}
  /\ ~shutdown
  /\ sched' = SchedSleep(SleepCap)
  /\ UNCHANGED <<now, records, pending, byOwner, nextId, enq, can, shutdown,
                 execLog, rq, extVars>>

\* GetNextReservation reads the record of the head id; a missing record is
\* "not found": the loop sleeps 30 s and re-peeks.
SchedPeekGet ==
  /\ sched.pc = "peek_get"
  /\ LET res == GetReservation(sched.cand[1]) IN
       IF res = <<>>
       THEN sched' = SchedSleep(SleepCap)
       ELSE sched' = [sched EXCEPT !.pc = "check", !.res = res]
  /\ UNCHANGED <<now, records, pending, byOwner, nextId, enq, can, shutdown,
                 execLog, rq, extVars>>

\* appCtx.API.Reserve(reserveParam) is called: the upstream attempt begins.
StartReserve ==
  /\ sched' = [sched EXCEPT !.pc = "reserve", !.snap = <<>>]
  /\ execLog' = IF Len(execLog) < MaxExec
                THEN Append(execLog, [id |-> sched.res[1].id,
                                      rt |-> sched.res[1].rt,
                                      snap |-> sched.snap])
                ELSE execLog

\* now := time.Now(); not due: sleep min(run_time - now, 30 s) and continue;
\* due: a legacy entry (no owner) goes straight to Reserve.
SchedCheck ==
  /\ sched.pc = "check"
  /\ LET r == sched.res[1] IN
       IF ~Due(r.rt, now)
       THEN /\ sched' = SchedSleep(SleepDuration(r.rt, now))
            /\ UNCHANGED execLog
       ELSE IF r.owner # NoOwner
       THEN /\ sched' = [sched EXCEPT !.pc = "creds"]
            /\ UNCHANGED execLog
       ELSE StartReserve
  /\ UNCHANGED <<now, records, pending, byOwner, nextId, enq, can,
                 shutdown, rq, extVars>>

\* store.GetResyCredentials for an owner-scoped entry: on success Reserve is
\* called; on error the entry is deleted without an attempt.
SchedCreds(ok) ==
  /\ sched.pc = "creds"
  /\ IF ok
     THEN StartReserve
     ELSE /\ sched' = [sched EXCEPT !.pc = "del_z", !.attempted = FALSE]
          /\ UNCHANGED execLog
  /\ UNCHANGED <<now, records, pending, byOwner, nextId, enq, can,
                 shutdown, rq, extVars>>

\* What the POST of the usage increment can come to.
Callbacks == {"2xx", "500", "error", "timeout"}
MaxCallbacks == MaxIds              \* callbacks recorded in us.calls

\* notifyUsageIncrement is reached (err == nil) and gets past its early
\* returns: the entry has an owner and the web app URL is configured
UsageDue(o, res, url) == o = "ok" /\ res.owner # NoOwner /\ url

\* Reserve returns, with success or an error kind; after a success the
\* usage increment is posted (result cb, only logged); then the delete.
SchedReserveReturn(o, cb) ==
  /\ sched.pc = "reserve"
  /\ sched' = [sched EXCEPT !.pc = "del_z", !.attempted = TRUE]
  /\ us' = IF UsageDue(o, sched.res[1], us.url)
              /\ Len(us.calls) < MaxCallbacks
           THEN [us EXCEPT !.calls = Append(@, [id |-> sched.res[1].id,
                                                 o |-> o, cb |-> cb])]
           ELSE us
  /\ UNCHANGED <<now, records, pending, byOwner, nextId, enq, can, shutdown,
                 execLog, rq, ck, rv, sl, vault, tm, hd, api, lg, rf, sv, cr,
                 vs>>

SchedDelZ ==
  /\ sched.pc = "del_z"
  /\ DeleteZ(sched.res[1].id)
  /\ sched' = [sched EXCEPT !.pc = "del_rec"]
  /\ UNCHANGED <<now, records, byOwner, nextId, enq, can, shutdown,
                 execLog, rq, extVars>>

\* Back to the top of the loop; `done` keeps the id whose attempt returned.
SchedNext ==
  [SchedIdle EXCEPT !.done = IF sched.attempted THEN <<sched.res[1].id>>
                             ELSE <<>>]

SchedDelRec ==
  /\ sched.pc = "del_rec"
  /\ DeleteRec(sched.res[1].id)
  /\ sched' = SchedNext
  /\ UNCHANGED <<now, pending, nextId, enq, can, shutdown, execLog, rq, extVars>>

\* DeleteReservation returns an error: it is logged (after an attempt) or
\* ignored (credentials branch), and the loop continues.
SchedDelFail ==
  /\ sched.pc \in {"del_z", "del_rec"}
  /\ sched' = SchedNext
  /\ UNCHANGED <<now, records, pending, byOwner, nextId, enq, can, shutdown,
                 execLog, rq, extVars>>

\* time.After(sleepDuration) fires.
SchedWake ==
  /\ sched.pc = "sleep"
  /\ sched.sleep = 0
  /\ sched' = SchedIdle
  /\ UNCHANGED <<now, records, pending, byOwner, nextId, enq, can, shutdown,
                 execLog, rq, extVars>>

\* ctx.Done() is selected at a sleep point.
SchedStop ==
  /\ sched.pc = "sleep"
  /\ shutdown
  /\ sched' = [SchedIdle EXCEPT !.pc = "stopped"]
  /\ UNCHANGED <<now, records, pending, byOwner, nextId, enq, can, shutdown,
                 execLog, rq, extVars>>

\* SIGINT / SIGTERM: cancel() of the scheduler's context.
Shutdown ==
  /\ ~shutdown
  /\ shutdown' = TRUE
  /\ UNCHANGED <<now, records, pending, byOwner, nextId, enq, can,
                 sched, execLog, rq, extVars>>

\* Normal operation: the store answers every call and no signal arrives.
QueueNext ==
  \/ Tick
  \/ \E rt \in RunTimes, o \in Owners : EnqueueRecord(rt, o)
  \/ EnqueueIndex
  \/ \E id \in CancelIds, u \in Users : CancelGet(id, u)
  \/ CancelDelZ
  \/ CancelDelRec
  \/ SchedPeek
  \/ SchedPeekGet
  \/ SchedCheck
  \/ \E ok \in BOOLEAN : SchedCreds(ok)
  \/ \E o \in Outcomes, cb \in Callbacks : SchedReserveReturn(o, cb)
  \/ SchedDelZ
  \/ SchedDelRec
  \/ SchedWake

Next == QueueNext

Spec == Init /\ [][Next]_vars

\* The same program with store calls that may return an error and with the
\* shutdown signal.
FaultNext ==
  \/ QueueNext
  \/ EnqueueFail
  \/ CancelDelFail
  \/ SchedPeekErr
  \/ SchedDelFail
  \/ SchedStop
  \/ Shutdown

FaultSpec == Init /\ [][FaultNext]_vars

\* -------------------------------------------------- liveness scenario
\* A queue that already holds n reservations, no further enqueue, a cancel
\* racing with the scheduler; the scheduler's delete may return an error.
RECURSIVE PreloadZ(_, _)
PreloadZ(f, n) ==
  IF n = 0 THEN <<>> ELSE ZAdd(PreloadZ(f, n - 1), Score(f[n].rt), n)

LiveInit ==
  \E n \in 1..MaxIds :
    \E f \in [1..n -> [rt : RunTimes, owner : Owners]] :
      /\ now = 0
      /\ records = f
      /\ pending = PreloadZ(f, n)
      /\ byOwner = [o \in Owners \ {NoOwner} |-> {i \in 1..n : f[i].owner = o}]
      /\ nextId = n + 1
      /\ enq = EnqIdle
      /\ can = CanIdle
      /\ sched = SchedIdle
      /\ shutdown = FALSE
      /\ execLog = <<>>
      /\ rq = RqIdle
      /\ ExtInit

SchedStep ==
  \/ SchedPeek
  \/ SchedPeekGet
  \/ SchedCheck
  \/ \E ok \in BOOLEAN : SchedCreds(ok)
  \/ \E o \in Outcomes, cb \in Callbacks : SchedReserveReturn(o, cb)
  \/ SchedWake

LiveNext ==
  \/ Tick
  \/ \E id \in CancelIds, u \in Users : CancelGet(id, u)
  \/ CancelDelZ
  \/ CancelDelRec
  \/ SchedStep
  \/ SchedDelZ
  \/ SchedDelRec
  \/ SchedDelFail

\* Time advances; the scheduler goroutine and a handler in flight keep
\* running; a store call that is retried again and again eventually succeeds.
LiveSpec ==
  /\ LiveInit
  /\ [][LiveNext]_vars
  /\ WF_vars(Tick)
  /\ WF_vars(CancelDelZ)
  /\ WF_vars(CancelDelRec)
  /\ WF_vars(SchedStep)
  /\ SF_vars(SchedDelZ)
  /\ SF_vars(SchedDelRec)

\* ------------------------------------------------ doRequestWithRetry
\* One upstream response: status code and the two headers the client reads.
Statuses == {200, 403, 500, 503}
Responses == [status : Statuses, xcdn : {"Imperva", ""}, server : {"nginx", ""}]

\* faulty variant: any response served by nginx is taken for a challenge
IsImpervaChallengeAnyNginx(resp) ==
  /\ resp.status \in {500, 403, 503}
  /\ \/ resp.xcdn = "Imperva"
     \/ resp.server = "nginx"

IsImpervaChallenge(resp) ==
  IF resp.status # 500 /\ resp.status # 403 /\ resp.status # 503 THEN FALSE
  ELSE IF resp.xcdn = "Imperva" THEN TRUE
  ELSE IF resp.server = "nginx" /\ resp.status = 500 THEN TRUE
  ELSE FALSE

\* Reserve calls doRequestWithRetry(client, request, body, 2, venueID).
RetryCall ==
  /\ rq.pc = "idle"
  /\ rq' = [pc |-> "send", attempt |-> 0, sent |-> <<>>, result |-> "none"]
  /\ UNCHANGED <<queueVars, extVars>>

\* client.Do(req) returns a response.
RetryResponse(resp) ==
  /\ rq.pc = "send"
  /\ rq.attempt <= MaxRetries
  /\ LET sent == Append(rq.sent, [kind |-> "resp", resp |-> resp]) IN
       IF IsImpervaChallenge(resp)
       THEN IF rq.attempt < MaxRetries
            THEN rq' = [rq EXCEPT !.attempt = @ + 1, !.sent = sent]
            ELSE rq' = [rq EXCEPT !.pc = "done", !.sent = sent,
                                  !.result = "ErrImperva"]
       ELSE rq' = [rq EXCEPT !.pc = "done", !.sent = sent, !.result = "resp"]
  /\ UNCHANGED <<queueVars, extVars>>

\* client.Do(req) returns a transport error: it is returned at once.
RetryTransportError ==
  /\ rq.pc = "send"
  /\ rq.attempt <= MaxRetries
  /\ rq' = [rq EXCEPT !.pc = "done", !.result = "err",
                      !.sent = Append(@, [kind |-> "err",
                                          resp |-> [status |-> 0, xcdn |-> "",
                                                    server |-> ""]])]
  /\ UNCHANGED <<queueVars, extVars>>

RetryNext ==
  \/ RetryCall
  \/ \E resp \in Responses : RetryResponse(resp)
  \/ RetryTransportError

RetrySpec == Init /\ [][RetryNext]_vars

\* ------------------------------------------------- cookie session (WAF)
\* A cookie is (name, value); Domain, Path and the flags are left out.
MaxSetCookie == 2     \* Set-Cookie headers in one response

\* Set-Cookie header lines an upstream response can carry.
SetCookieLines ==
  {"_incap_a=v1", "incap_ses_1=v2; Path=/", " nlbi_9=v3; Secure",
   "visid_incap_7=v1", "_visid_x=v2", "nlbi_9=v4", "xnlbi_9=v1", "nlbi_9"}

SetCookieSeqs ==
  UNION {[1..n -> SetCookieLines] : n \in 0..MaxSetCookie}

\* Sessions loaded before the request (LoadCookiesFromStore).
Jars ==
  {<<>>,
   <<[name |-> "session", value |-> "s0"],
     [name |-> "nlbi_9", value |-> "old"]>>}

\* strings.HasPrefix
HasPrefix(s, p) == Len(s) >= Len(p) /\ SubSeq(s, 1, Len(p)) = p

\* strings.Index for a one-character separator: 0 when absent
RECURSIVE IndexFrom(_, _, _)
IndexFrom(s, c, i) ==
  IF i > Len(s) THEN 0
  ELSE IF SubSeq(s, i, i) = c THEN i
  ELSE IndexFrom(s, c, i + 1)

\* strings.TrimSpace
RECURSIVE TrimSpace(_)
TrimSpace(s) ==
  IF Len(s) = 0 THEN s
  ELSE IF SubSeq(s, 1, 1) = " " THEN TrimSpace(SubSeq(s, 2, Len(s)))
  ELSE IF SubSeq(s, Len(s), Len(s)) = " "
       THEN TrimSpace(SubSeq(s, 1, Len(s) - 1))
  ELSE s

\* strings.Split(cookieStr, ";")[0]
FirstPart(line) ==
  LET k == IndexFrom(line, ";", 1) IN
    IF k = 0 THEN line ELSE SubSeq(line, 1, k - 1)

\* strings.SplitN(parts[0], "=", 2): <<>> unless it yields two pieces;
\* the name is trimmed, the value is taken as it is.
ParseNameValue(line) ==
  LET p == FirstPart(line)
      k == IndexFrom(p, "=", 1)
  IN  IF k = 0 THEN <<>>
      ELSE <<[name  |-> TrimSpace(SubSeq(p, 1, k - 1)),
              value |-> SubSeq(p, k + 1, Len(p))]>>

IsImpervaCookie(cookieName) ==
  \/ HasPrefix(cookieName, "_incap_")
  \/ HasPrefix(cookieName, "incap_ses_")
  \/ HasPrefix(cookieName, "_visid_")
  \/ HasPrefix(cookieName, "visid_incap_")
  \/ HasPrefix(cookieName, "nlbi_")

\* faulty variant: the cookie is appended even when the name is present
AddOrUpdateAppend(jar, cookie) == Append(jar, cookie)

\* "Add or update cookie": the first cookie of that name is replaced,
\* otherwise the cookie is appended.
AddOrUpdate(jar, cookie) ==
  LET hit == {i \in 1..Len(jar) : jar[i].name = cookie.name} IN
    IF hit = {} THEN Append(jar, cookie)
    ELSE LET k == CHOOSE i \in hit : \A j \in hit : i <= j
         IN  [jar EXCEPT ![k] = cookie]

\* one round of the loop over resp.Header.Values("Set-Cookie")
MergeLine(jar, line) ==
  LET nv == ParseNameValue(line) IN
    IF nv # <<>> /\ IsImpervaCookie(nv[1].name)
    THEN AddOrUpdate(jar, nv[1])
    ELSE jar

\* extractCookiesFromResponse reads the Set-Cookie headers only of a
\* response with X-Cdn: Imperva or Server: nginx.
ExtractedLines(resp, lines) ==
  IF resp.xcdn = "Imperva" \/ resp.server = "nginx" THEN lines ELSE <<>>

\* Reserve loads the session, builds the request, adds the session cookies
\* to it and calls doRequestWithRetry, which keeps the original headers.
CkCall(jar) ==
  /\ ck.pc = "idle"
  /\ ck' = [pc |-> "send", attempt |-> 0, jar |-> jar, prev |-> jar,
            lines |-> <<>>, rest |-> <<>>, orig |-> jar, req |-> jar]
  /\ UNCHANGED <<queueVars, rq, rv, sl, vault, tm, hd, api, lg, rf, sv, cr, vs, us>>

\* client.Do returns a WAF challenge: extractCookiesFromResponse is called.
CkChallenge(resp, lines) ==
  /\ ck.pc = "send"
  /\ IsImpervaChallenge(resp)
  /\ ck' = [ck EXCEPT !.pc = "extract", !.prev = ck.jar, !.lines = lines,
                      !.rest = ExtractedLines(resp, lines)]
  /\ UNCHANGED <<queueVars, rq, rv, sl, vault, tm, hd, api, lg, rf, sv, cr, vs, us>>

\* One Set-Cookie header is parsed and merged.
CkExtractLine ==
  /\ ck.pc = "extract"
  /\ ck.rest # <<>>
  /\ ck' = [ck EXCEPT !.jar = MergeLine(ck.jar, Head(ck.rest)),
                      !.rest = Tail(ck.rest)]
  /\ UNCHANGED <<queueVars, rq, rv, sl, vault, tm, hd, api, lg, rf, sv, cr, vs, us>>

\* All headers are read: the request is replayed while the budget lasts.
CkExtractDone ==
  /\ ck.pc = "extract"
  /\ ck.rest = <<>>
  /\ ck' = [ck EXCEPT !.pc = IF ck.attempt < MaxRetries THEN "replay"
                                                       ELSE "done"]
  /\ UNCHANGED <<queueVars, rq, rv, sl, vault, tm, hd, api, lg, rf, sv, cr, vs, us>>

\* The request is recreated with the original headers and the session
\* cookies are added to it again.  (prev and lines, which only remember the
\* last challenge, are reset.)
CkReplay ==
  /\ ck.pc = "replay"
  /\ ck' = [ck EXCEPT !.pc = "send", !.attempt = @ + 1,
                      !.req = ck.orig \o ck.jar,
                      !.prev = ck.jar, !.lines = <<>>]
  /\ UNCHANGED <<queueVars, rq, rv, sl, vault, tm, hd, api, lg, rf, sv, cr, vs, us>>

\* client.Do returns a response that is no challenge, or a transport error.
CkReturn ==
  /\ ck.pc = "send"
  /\ ck' = [ck EXCEPT !.pc = "done"]
  /\ UNCHANGED <<queueVars, rq, rv, sl, vault, tm, hd, api, lg, rf, sv, cr, vs, us>>

CookieNext ==
  \/ \E jar \in Jars : CkCall(jar)
  \/ /\ ck.pc = "send"
     /\ \E resp \in Responses, lines \in SetCookieSeqs :
          CkChallenge(resp, lines)
  \/ CkExtractLine
  \/ CkExtractDone
  \/ CkReplay
  \/ CkReturn

CookieSpec == Init /\ [][CookieNext]_vars

\* -------------------------------------------------- Reserve: slot choice
\* Instants are minutes; a slot start is a wall-clock minute in the venue
\* zone (America/New_York), a requested time is a UTC instant.
DayMinutes == 1440
NycOffset == 240        \* minutes America/New_York is behind UTC (EDT)
MaxTimeDiff == 30       \* maxTimeDiff, minutes
StartTimeDiff == 31     \* initial bestTimeDiff, minutes

\* currentTime.In(nycLocation), as a wall-clock minute
InNYC(t) == t - NycOffset
DayOf(w) == w \div DayMinutes
HourMinuteOf(w) == w % DayMinutes

Upper == "ABCDEFGHIJKLMNOPQRSTUVWXYZ"
Lower == "abcdefghijklmnopqrstuvwxyz"

\* strings.ToLower
RECURSIVE ToLower(_)
ToLower(s) ==
  IF Len(s) = 0 THEN s
  ELSE LET c == SubSeq(s, 1, 1)
           k == IndexFrom(Upper, c, 1)
       IN  (IF k = 0 THEN c ELSE SubSeq(Lower, k, k))
             \o ToLower(SubSeq(s, 2, Len(s)))

\* strings.Contains
Contains(s, sub) ==
  \E i \in 1..(Len(s) - Len(sub) + 1) : SubSeq(s, i, i + Len(sub) - 1) = sub

\* faulty variant: the sign of the difference is kept
SignedDiff(a, b) == a - b

\* slotTime.Sub(currentTimeNYC), made absolute
AbsDiff(a, b) == IF a < b THEN b - a ELSE a - b

NoSlot == [idx |-> 0, diff |-> StartTimeDiff, exact |-> FALSE]

\* absTimeDiff <= maxTimeDiff && absTimeDiff < bestTimeDiff
WithinWindow(d, best) == d <= MaxTimeDiff /\ d < best

\* The scan over jsonSlotsList for one (table type, requested time): pref
\* is <<>> (no preference) or <<type>>; the result is the index of the
\* chosen slot, 0 for none.
RECURSIVE ScanSlots(_, _, _, _, _)
ScanSlots(slots, j, pref, req, best) ==
  IF j > Len(slots) THEN best
  ELSE LET slot == slots[j]
           w == InNYC(req)
       IN  IF DayOf(slot.start) # DayOf(w)
           THEN ScanSlots(slots, j + 1, pref, req, best)
           ELSE IF pref # <<>> /\ ~Contains(ToLower(slot.type), pref[1])
           THEN ScanSlots(slots, j + 1, pref, req, best)
           ELSE IF HourMinuteOf(slot.start) = HourMinuteOf(w)
           THEN [idx |-> j, diff |-> 0, exact |-> TRUE]
           ELSE IF WithinWindow(AbsDiff(slot.start, w), best.diff)
           THEN ScanSlots(slots, j + 1, pref, req,
                          [idx |-> j, diff |-> AbsDiff(slot.start, w),
                           exact |-> FALSE])
           ELSE ScanSlots(slots, j + 1, pref, req, best)

SelectSlot(slots, pref, req) == ScanSlots(slots, 1, pref, req, NoSlot).idx

\* Inputs of the slot choice.  Requested times are 00:10 and 00:30 venue
\* time of day 1; slot starts lie around them, one on the day before.
MaxSlots == 2           \* slots in a FIND response
ReqTimes == {DayMinutes + 10 + NycOffset, DayMinutes + 30 + NycOffset}
SlotStarts ==
  {DayMinutes - 20, DayMinutes, DayMinutes + 10, DayMinutes + 40,
   DayMinutes + 41, DayMinutes + 60, DayMinutes + 61}
SlotTypes == {"Dining Room", "Patio"}
TablePrefs == {<<>>, <<"dining">>, <<"patio", "dining">>}
SlotLists ==
  UNION {[1..n -> [start : SlotStarts, type : SlotTypes]] : n \in 0..MaxSlots}

SlotInit ==
  /\ QueueInit
  /\ rq = RqIdle
  /\ ck = CkIdle
  /\ rv = RvIdle
  /\ vault = VaultIdle
  /\ tm = TmIdle
  /\ hd = HdIdle
  /\ api = ApiIdle
  /\ lg = LgIdle
  /\ rf = RfIdle
  /\ sv = SvIdle
  /\ cr = CrIdle
  /\ vs = VsIdle
  /\ us = UsIdle
  /\ \E slots \in SlotLists, p \in {<<>>, <<"dining">>, <<"patio">>},
        req \in ReqTimes :
       sl = [pc |-> "in", slots |-> slots, pref |-> p, req |-> req, idx |-> 0]

SlotSelect ==
  /\ sl.pc = "in"
  /\ sl' = [sl EXCEPT !.pc = "out",
                      !.idx = SelectSlot(sl.slots, sl.pref, sl.req)]
  /\ UNCHANGED <<queueVars, rq, ck, rv, vault, tm, hd, api, lg, rf, sv, cr, vs, us>>

SlotNext == SlotSelect

SlotSpec == SlotInit /\ [][SlotNext]_vars

\* ------------------------------------------------ Reserve: the outer loop
FindOutcomes ==
  {"ok", "waf-blocked", "transport", "non-2xx", "bad-json", "no-offer"}
DetailOutcomes ==
  {"ok", "waf-blocked", "transport", "non-2xx", "bad-json", "no-book-token"}
BookOutcomes ==
  {"ok", "waf-blocked", "transport", "non-2xx", "non-2xx-with-id",
   "bad-json", "no-reservation-id"}

\* the body of the BOOK response is JSON with a reservation_id key
HasReservationId(o) == o \in {"ok", "non-2xx-with-id"}

\* FIND results of the loop model: slots at 00:10 and 00:41 only; token
\* tells whether config.token of the slot is a string.  The config token of
\* slot j is written j (the tokens of a response are distinct).
RvSlotLists ==
  UNION {[1..n -> [start : {DayMinutes + 10, DayMinutes + 41},
                   type : SlotTypes, token : BOOLEAN]] : n \in 0..MaxSlots}

\* book_token.value of a DETAIL response
BookTokens == {"bt1", "a+b/c= d"}

\* url.QueryEscape: unreserved characters stay, a space becomes "+", every
\* other character %XX
Escapes ==
  << <<"+", "%2B">>, <<"/", "%2F">>, <<"=", "%3D">>, <<"&", "%26">>,
     <<"%", "%25">>, <<" ", "+">>, <<"{", "%7B">>, <<"}", "%7D">>,
     <<"\"", "%22">>, <<":", "%3A">> >>

EscapeChar(c) ==
  IF \E e \in 1..Len(Escapes) : Escapes[e][1] = c
  THEN Escapes[CHOOSE e \in 1..Len(Escapes) : Escapes[e][1] = c][2]
  ELSE c

RECURSIVE QueryEscape(_)
QueryEscape(str) ==
  IF Len(str) = 0 THEN str
  ELSE Only({EscapeChar(SubSeq(t, 1, 1)) \o QueryEscape(SubSeq(t, 2, Len(t))) :
               t \in {str}})

\* what the upstream decodes from a form field (url.QueryUnescape)
RECURSIVE QueryUnescape(_)
QueryUnescape(str) ==
  IF Len(str) = 0 THEN str
  ELSE Only({
    IF SubSeq(t, 1, 1) = "+" THEN " " \o QueryUnescape(SubSeq(t, 2, Len(t)))
    ELSE IF SubSeq(t, 1, 1) = "%" /\ Len(t) >= 3
              /\ \E e \in 1..Len(Escapes) : Escapes[e][2] = SubSeq(t, 1, 3)
    THEN Escapes[CHOOSE e \in 1..Len(Escapes) :
                   Escapes[e][2] = SubSeq(t, 1, 3)][1]
           \o QueryUnescape(SubSeq(t, 4, Len(t)))
    ELSE SubSeq(t, 1, 1) \o QueryUnescape(SubSeq(t, 2, Len(t))) :
    t \in {str}})

\* the form body of the BOOK request (the payment method id is 7 here)
BookBody(bookToken) ==
  "book_token=" \o QueryEscape(bookToken)
    \o "&struct_payment_method="
    \o QueryEscape("{\"id\":" \o "7" \o "}")
    \o "&source_id=resy.com-venue-details"

\* bestSlotConfigToken after the scan: the token of the last slot that
\* became the best slot and has one (it is not cleared when a later best
\* slot has none); 0 for none
RECURSIVE ScanConfigToken(_, _, _, _, _, _)
ScanConfigToken(slots, j, pref, req, diff, tok) ==
  IF j > Len(slots) THEN tok
  ELSE LET slot == slots[j]
           w == InNYC(req)
           mine == IF slot.token THEN j ELSE tok
       IN  IF DayOf(slot.start) # DayOf(w)
           THEN ScanConfigToken(slots, j + 1, pref, req, diff, tok)
           ELSE IF pref # <<>> /\ ~Contains(ToLower(slot.type), pref[1])
           THEN ScanConfigToken(slots, j + 1, pref, req, diff, tok)
           ELSE IF HourMinuteOf(slot.start) = HourMinuteOf(w)
           THEN mine
           ELSE IF WithinWindow(AbsDiff(slot.start, w), diff)
           THEN ScanConfigToken(slots, j + 1, pref, req,
                                AbsDiff(slot.start, w), mine)
           ELSE ScanConfigToken(slots, j + 1, pref, req, diff, tok)

\* configToken of the DETAIL request; when bestSlotConfigToken is empty the
\* best slot's own token is looked up again (0: none, the candidate is
\* skipped)
ConfigToken(slots, pref, req) ==
  ScanConfigToken(slots, 1, pref, req, StartTimeDiff, 0)

\* one request sent upstream and what came back
Sent(step, slot, config, body, resp, token) ==
  [step |-> step, slot |-> slot, config |-> config, body |-> body,
   resp |-> resp, token |-> token]

\* One Reserve call with its parameters and the FIND result.
ReserveInit ==
  /\ QueueInit
  /\ rq = RqIdle
  /\ ck = CkIdle
  /\ sl = SlIdle
  /\ vault = VaultIdle
  /\ tm = TmIdle
  /\ hd = HdIdle
  /\ api = ApiIdle
  /\ lg = LgIdle
  /\ rf = RfIdle
  /\ sv = SvIdle
  /\ cr = CrIdle
  /\ vs = VsIdle
  /\ us = UsIdle
  /\ \E slots \in RvSlotLists, prefs \in TablePrefs,
        times \in {<<>>} \cup {<<a>> : a \in ReqTimes}
                  \cup {<<a, b>> : a, b \in ReqTimes} :
       rv = [RvIdle EXCEPT !.pc = "find", !.slots = slots, !.prefs = prefs,
                           !.times = times]

\* for k := 0; k < len(TableTypes) || (!hasTableTypePreference && k == 0)
RvTableRounds(prefs) == IF prefs = <<>> THEN 1 ELSE Len(prefs)

\* the next (table type, requested time) candidate
RvAdvance(r) ==
  IF r.i < Len(r.times)
  THEN [r EXCEPT !.pc = "select", !.i = @ + 1, !.best = 0]
  ELSE [r EXCEPT !.pc = "select", !.k = @ + 1, !.i = 1, !.best = 0]

RvReturn(r, result) == [r EXCEPT !.pc = "done", !.result = result]

\* len(ReservationTimes) == 0 returns ErrTimeNull; else FIND is sent and its
\* response decoded; every failure returns.
RvFind(o) ==
  /\ rv.pc = "find"
  /\ rv' = IF rv.times = <<>> THEN RvReturn(rv, "time-null")
           ELSE LET r == [rv EXCEPT !.sent = Append(@, Sent("find", 0, 0, "",
                                                             o, ""))]
                IN  IF o = "ok" THEN [r EXCEPT !.pc = "select", !.found = TRUE]
                    ELSE RvReturn(r, o)
  /\ UNCHANGED <<queueVars, rq, ck, sl, vault, tm, hd, api, lg, rf, sv, cr, vs, us>>

\* Loop head and slot scan for the current candidate; a best slot without
\* any config token is passed over.
RvSelect ==
  /\ rv.pc = "select"
  /\ rv' = IF rv.k > RvTableRounds(rv.prefs) THEN RvReturn(rv, "no-table")
           ELSE LET pref == IF rv.prefs = <<>> THEN <<>>
                            ELSE <<rv.prefs[rv.k]>>
                    j == SelectSlot(rv.slots, pref, rv.times[rv.i])
                    c == ConfigToken(rv.slots, pref, rv.times[rv.i])
                IN  IF j = 0 \/ c = 0 THEN RvAdvance(rv)
                    ELSE [rv EXCEPT !.pc = "detail", !.best = j,
                                    !.config = c,
                                    !.seen = @ \cup {<<rv.k, rv.i>>}]
  /\ UNCHANGED <<queueVars, rq, ck, sl, vault, tm, hd, api, lg, rf, sv, cr, vs, us>>

\* faulty variant: a DETAIL response without book_token goes on to BOOK
RvDetailNoToken(o, tok) ==
  /\ rv.pc = "detail"
  /\ LET r == [rv EXCEPT !.sent = Append(@, Sent("detail", rv.best, rv.config,
                                                  "", o, ""))]
     IN  rv' = IF o \in {"ok", "no-book-token"}
               THEN [r EXCEPT !.pc = "book", !.token = ""]
               ELSE [RvReturn(r, o) EXCEPT !.failed = @ \cup {o}]
  /\ UNCHANGED <<queueVars, rq, ck, sl, vault, tm, hd, api, lg, rf, sv, cr, vs, us>>

\* DETAIL for the chosen slot (tok is book_token.value of a good response):
\* only a missing book_token goes on to the next candidate; every other
\* failure returns from Reserve.
RvDetail(o, tok) ==
  /\ rv.pc = "detail"
  /\ LET r == [rv EXCEPT !.sent = Append(@, Sent("detail", rv.best, rv.config,
                                                  "", o,
                                                  IF o = "ok" THEN tok
                                                  ELSE ""))]
     IN  rv' = IF o = "ok" THEN [r EXCEPT !.pc = "book", !.token = tok]
               ELSE IF o = "no-book-token"
               THEN [RvAdvance(r) EXCEPT !.failed = @ \cup {o}]
               ELSE [RvReturn(r, o) EXCEPT !.failed = @ \cup {o}]
  /\ UNCHANGED <<queueVars, rq, ck, sl, vault, tm, hd, api, lg, rf, sv, cr, vs, us>>

\* faulty variant: after a good BOOK response the loop goes on
RvBookOn(o) ==
  /\ rv.pc = "book"
  /\ LET r == [rv EXCEPT !.sent = Append(@, Sent("book", rv.best, rv.config,
                                                  BookBody(rv.token), o, "")),
                         !.token = ""]
     IN  rv' = IF o \in {"waf-blocked", "transport"}
               THEN [RvReturn(r, o) EXCEPT !.failed = @ \cup {o}]
               ELSE [RvAdvance(r) EXCEPT
                       !.result = IF o = "ok" THEN "booked" ELSE @]
  /\ UNCHANGED <<queueVars, rq, ck, sl, vault, tm, hd, api, lg, rf, sv, cr, vs, us>>

\* BOOK: an error of doRequestWithRetry returns from Reserve; a non-2xx
\* status, an undecodable body or a missing reservation_id goes on.
RvBook(o) ==
  /\ rv.pc = "book"
  /\ LET r == [rv EXCEPT !.sent = Append(@, Sent("book", rv.best, rv.config,
                                                  BookBody(rv.token), o, "")),
                         !.token = ""]
     IN  rv' = IF o = "ok" THEN RvReturn(r, "booked")
               ELSE IF o \in {"waf-blocked", "transport"}
               THEN [RvReturn(r, o) EXCEPT !.failed = @ \cup {o}]
               ELSE [RvAdvance(r) EXCEPT !.failed = @ \cup {o}]
  /\ UNCHANGED <<queueVars, rq, ck, sl, vault, tm, hd, api, lg, rf, sv, cr, vs, us>>

ReserveNext ==
  \/ \E o \in FindOutcomes : RvFind(o)
  \/ RvSelect
  \/ \E o \in DetailOutcomes, tok \in BookTokens : RvDetail(o, tok)
  \/ \E o \in BookOutcomes : RvBook(o)

ReserveSpec == ReserveInit /\ [][ReserveNext]_vars

\* ----------------------------------------------------- credential vault
\* A stored JSON field is a string or a number.  A string is its literal
\* text followed by what base64 decodes to: box is <<>> (nothing that
\* opens) or the AES-GCM sealed payload <<[key, nonce, plain]>>, which opens
\* under its key only.
MaxOps == 2             \* vault operations in one run

Keys == {"", "k1"}              \* configured key: none, or 32 bytes
SealKeys == {"k1", "k2"}        \* keys stored ciphertext was sealed under
Nonces == {1, 2}                \* values of the random 96-bit nonce
AuthTokens == {"tok", "v1"}
PaymentIds == {0, 42, -7}

Digits == "0123456789"

\* strconv.FormatInt(n, 10)
RECURSIVE FormatNat(_)
FormatNat(n) ==
  IF n < 10 THEN SubSeq(Digits, n + 1, n + 1)
  ELSE FormatNat(n \div 10) \o SubSeq(Digits, (n % 10) + 1, (n % 10) + 1)

FormatInt(n) == IF n < 0 THEN "-" \o FormatNat(0 - n) ELSE FormatNat(n)

\* strconv.ParseInt(s, 10, 64): <<n>>, or <<>> for a syntax error
RECURSIVE ParseNat(_, _)
ParseNat(s, acc) ==
  IF Len(s) = 0 THEN <<acc>>
  ELSE LET d == IndexFrom(Digits, SubSeq(s, 1, 1), 1) IN
         IF d = 0 THEN <<>>
         ELSE ParseNat(SubSeq(s, 2, Len(s)), acc * 10 + (d - 1))

ParseInt(s) ==
  IF Len(s) = 0 THEN <<>>
  ELSE LET c == SubSeq(s, 1, 1)
           body == IF c \in {"-", "+"} THEN SubSeq(s, 2, Len(s)) ELSE s
           n == IF Len(body) = 0 THEN <<>> ELSE ParseNat(body, 0)
       IN  IF n = <<>> THEN <<>>
           ELSE IF c = "-" THEN <<0 - n[1]>> ELSE n

JsonString(text) == [json |-> "string", text |-> text, box |-> <<>>, num |-> 0]
JsonNumber(n) == [json |-> "number", text |-> "", box |-> <<>>, num |-> n]

hasEncryptionPrefix(value) == HasPrefix(value.text, "v1:")

\* faulty variant: the version tag is not written
encryptStringUnversioned(plaintext, key, nonce) ==
  [json |-> "string", text |-> "",
   box |-> <<[key |-> key, nonce |-> nonce, plain |-> plaintext]>>,
   num |-> 0]

\* "v1:" + base64(nonce || Seal(nonce, plaintext))
encryptString(plaintext, key, nonce) ==
  [json |-> "string", text |-> "v1:",
   box |-> <<[key |-> key, nonce |-> nonce, plain |-> plaintext]>>,
   num |-> 0]

Failed(err) == [ok |-> FALSE, err |-> err, text |-> ""]
Plain(text) == [ok |-> TRUE, err |-> "", text |-> text]

decryptString(value, key) ==
  IF ~hasEncryptionPrefix(value) THEN Failed("prefix-missing")
  ELSE IF value.box = <<>> THEN Failed("corrupt")
  ELSE IF value.box[1].key # key THEN Failed("open-failed")
  ELSE Plain(value.box[1].plain)

\* coercePaymentMethodID: a non-empty string, or a number formatted
coercePaymentMethodID(value) ==
  IF value.json = "string"
  THEN IF value.text = "" /\ value.box = <<>>
       THEN Failed("payment_method_id missing")
       ELSE [ok |-> TRUE, err |-> "", value |-> value]
  ELSE [ok |-> TRUE, err |-> "",
        value |-> JsonString(FormatInt(value.num))]

NoCreds == [ok |-> FALSE, err |-> "", auth |-> "", pay |-> 0]
CredsErr(err) == [NoCreds EXCEPT !.err = err]
Creds(auth, pay) == [ok |-> TRUE, err |-> "", auth |-> auth, pay |-> pay]

\* faulty variant: the payment id is stored as its decimal string
SaveResyCredentialsPlainId(key, entry, creds, n1, n2, setOk) ==
  IF key = "" THEN [err |-> "key-missing", entry |-> entry]
  ELSE IF ~setOk THEN [err |-> "kvs", entry |-> entry]
  ELSE [err |-> "",
        entry |-> <<[auth |-> encryptString(creds.auth, key, n1),
                     pay |-> JsonString(FormatInt(creds.pay))]>>]

\* SaveResyCredentials: <<error, entry written>>; setOk is the outcome of
\* the KVS SET.
SaveResyCredentials(key, entry, creds, n1, n2, setOk) ==
  IF key = "" THEN [err |-> "key-missing", entry |-> entry]
  ELSE IF ~setOk THEN [err |-> "kvs", entry |-> entry]
  ELSE [err |-> "",
        entry |-> <<[auth |-> encryptString(creds.auth, key, n1),
                     pay |-> encryptString(FormatInt(creds.pay), key, n2)]>>]

\* faulty variant: a failed re-encryption fails the read
ReencryptStrict(creds, saved) ==
  IF saved.err = "" THEN creds ELSE CredsErr(saved.err)

\* the error of the re-encrypting save is logged; the read returns creds
Reencrypt(creds, saved) == creds

\* GetResyCredentials: [out, entry]
GetResyCredentials(key, entry, n1, n2, setOk) ==
  IF key = "" THEN [out |-> CredsErr("key-missing"), entry |-> entry]
  ELSE IF entry = <<>> THEN [out |-> CredsErr("kvs"), entry |-> entry]
  ELSE LET e == entry[1]
           authRaw == e.auth
           payC == coercePaymentMethodID(e.pay)
       IN
       IF authRaw.json # "string" \/ (authRaw.text = "" /\ authRaw.box = <<>>)
       THEN [out |-> CredsErr("auth_token missing or invalid"),
             entry |-> entry]
       ELSE IF ~payC.ok THEN [out |-> CredsErr(payC.err), entry |-> entry]
       ELSE LET authD == IF hasEncryptionPrefix(authRaw)
                         THEN decryptString(authRaw, key)
                         ELSE Plain(authRaw.text)
                payD == IF hasEncryptionPrefix(payC.value)
                        THEN decryptString(payC.value, key)
                        ELSE Plain(payC.value.text)
                needsReencrypt == \/ ~hasEncryptionPrefix(authRaw)
                                  \/ ~hasEncryptionPrefix(payC.value)
            IN
            IF ~authD.ok THEN [out |-> CredsErr(authD.err), entry |-> entry]
            ELSE IF ~payD.ok
            THEN [out |-> CredsErr(payD.err), entry |-> entry]
            ELSE IF ParseInt(payD.text) = <<>>
            THEN [out |-> CredsErr("invalid payment_method_id"),
                  entry |-> entry]
            ELSE LET creds == Creds(authD.text, ParseInt(payD.text)[1])
                     saved == SaveResyCredentials(key, entry, creds, n1, n2,
                                                  setOk)
                 IN  IF needsReencrypt
                     THEN [out |-> Reencrypt(creds, saved),
                           entry |-> saved.entry]
                     ELSE [out |-> creds, entry |-> entry]

\* Entries found in the KVS at start: none, a legacy plaintext entry (the
\* payment id a JSON number or a decimal string), or an entry written by
\* SaveResyCredentials under some key.
LegacyEntries ==
  {<<[auth |-> JsonString(a), pay |-> p]>> :
     a \in AuthTokens,
     p \in {JsonNumber(n) : n \in PaymentIds}
             \cup {JsonString(FormatInt(n)) : n \in PaymentIds}}

SealedEntries ==
  {<<[auth |-> encryptString(a, k, 1),
      pay |-> encryptString(FormatInt(n), k, 2)]>> :
     a \in AuthTokens, n \in PaymentIds, k \in SealKeys}

VaultInit ==
  /\ QueueInit
  /\ rq = RqIdle
  /\ ck = CkIdle
  /\ rv = RvIdle
  /\ sl = SlIdle
  /\ tm = TmIdle
  /\ hd = HdIdle
  /\ api = ApiIdle
  /\ lg = LgIdle
  /\ rf = RfIdle
  /\ sv = SvIdle
  /\ cr = CrIdle
  /\ vs = VsIdle
  /\ us = UsIdle
  /\ \E key \in Keys, entry \in {<<>>} \cup LegacyEntries \cup SealedEntries :
       vault = [VaultIdle EXCEPT !.key = key, !.entry = entry]

\* SaveResyCredentials(creds)
VaultSave(creds, n1, n2, setOk) ==
  /\ vault.ops < MaxOps
  /\ LET r == SaveResyCredentials(vault.key, vault.entry, creds, n1, n2,
                                  setOk)
     IN  vault' = [vault EXCEPT
                     !.ops = @ + 1, !.op = "save", !.before = vault.entry,
                     !.setOk = setOk, !.entry = r.entry,
                     !.out = IF r.err = "" THEN Creds(creds.auth, creds.pay)
                             ELSE CredsErr(r.err),
                     !.saved = IF r.err = "" THEN <<creds>> ELSE @]
  /\ UNCHANGED <<queueVars, rq, ck, rv, sl, tm, hd, api, lg, rf, sv, cr, vs, us>>

\* GetResyCredentials(user), the re-encrypting save included
VaultGet(n1, n2, setOk) ==
  /\ vault.ops < MaxOps
  /\ LET r == GetResyCredentials(vault.key, vault.entry, n1, n2, setOk)
     IN  vault' = [vault EXCEPT
                     !.ops = @ + 1, !.op = "get", !.before = vault.entry,
                     !.setOk = setOk, !.entry = r.entry, !.out = r.out]
  /\ UNCHANGED <<queueVars, rq, ck, rv, sl, tm, hd, api, lg, rf, sv, cr, vs, us>>

VaultNext ==
  \/ \E a \in AuthTokens, p \in PaymentIds, n1, n2 \in Nonces,
        setOk \in BOOLEAN :
       VaultSave([auth |-> a, pay |-> p], n1, n2, setOk)
  \/ \E n1, n2 \in Nonces, setOk \in BOOLEAN : VaultGet(n1, n2, setOk)

VaultSpec == VaultInit /\ [][VaultNext]_vars

\* ------------------------------------------------------ booking window
\* Instants are whole minutes since 1970-01-01T00:00Z.  A location is its
\* offset before the first listed transition and the transitions of 2025
\* (instant and the offset from then on), as in the tz database.
DayLen == 1440          \* minutes in a day
FarPast == 0 - 1000000000
FarFuture == 1000000000


\* civil date -> day number; the day may lie outside the month (time.Date
\* normalises it)
DaysOf(ymd) ==
  LET y == IF ymd[2] <= 2 THEN ymd[1] - 1 ELSE ymd[1]
      era == y \div 400
      yoe == y - era * 400
      mp == IF ymd[2] > 2 THEN ymd[2] - 3 ELSE ymd[2] + 9
      doy == (153 * mp + 2) \div 5 + ymd[3] - 1
      doe == yoe * 365 + yoe \div 4 - yoe \div 100 + doy
  IN  era * 146097 + doe - 719468

DaysFromCivil(year, month, day) ==
  Only({DaysOf(ymd) : ymd \in {<<year, month, day>>}})

\* day number -> civil date, by era, year of era, day of year, month
CivilOfMonth(era, yoe, doy, mp) ==
  [year |-> yoe + era * 400 + (IF mp < 10 THEN 0 ELSE 1),
   month |-> IF mp < 10 THEN mp + 3 ELSE mp - 9,
   day |-> doy - (153 * mp + 2) \div 5 + 1]

CivilOfYear(era, doe, yoe) ==
  Only({CivilOfMonth(era, yoe, doy, (5 * doy + 2) \div 153) :
          doy \in {doe - (365 * yoe + yoe \div 4 - yoe \div 100)}})

CivilOfEra(era, doe) ==
  Only({CivilOfYear(era, doe, yoe) :
          yoe \in {(doe - doe \div 1460 + doe \div 36524
                      - doe \div 146096) \div 365}})

CivilFromDays(z) ==
  Only({CivilOfEra(n \div 146097, n - (n \div 146097) * 146097) :
          n \in {z + 719468}})

Instant(year, month, day, hour, minute) ==
  DaysFromCivil(year, month, day) * DayLen + hour * 60 + minute

Locations ==
  {[name |-> "UTC", base |-> 0, trans |-> <<>>],
   [name |-> "America/New_York", base |-> -300,
    trans |-> <<[at |-> Instant(2025, 3, 9, 7, 0), offset |-> -240],
                [at |-> Instant(2025, 11, 2, 6, 0), offset |-> -300]>>],
   [name |-> "America/Havana", base |-> -300,
    trans |-> <<[at |-> Instant(2025, 3, 9, 5, 0), offset |-> -240],
                [at |-> Instant(2025, 11, 2, 5, 0), offset |-> -300]>>]}

\* time.LoadLocation: <<loc>>, or <<>> for an unknown name
LoadLocation(name) ==
  IF \E l \in Locations : l.name = name
  THEN <<CHOOSE l \in Locations : l.name = name>>
  ELSE <<>>

\* Location.lookup: the offset in force at a UTC instant and the span of
\* instants it is in force for; i transitions lie at or before the instant
lookupAt(loc, i) ==
  [offset |-> IF i = 0 THEN loc.base ELSE loc.trans[i].offset,
   start |-> IF i = 0 THEN FarPast ELSE loc.trans[i].at,
   end |-> IF i = Len(loc.trans) THEN FarFuture ELSE loc.trans[i + 1].at]

lookup(loc, t) ==
  Only({lookupAt(loc, i) :
          i \in {Cardinality({j \in 1..Len(loc.trans) :
                                loc.trans[j].at <= t})}})

\* Time.In(loc) read through Date() and Clock(); local is the instant
\* shifted by the offset in force
Fields(local) ==
  Only({[year |-> date.year, month |-> date.month, day |-> date.day,
         hour |-> (local % DayLen) \div 60, minute |-> local % 60] :
          date \in {CivilFromDays(local \div DayLen)}})

In(t, loc) ==
  Only({Only({Fields(local) : local \in {u + lookup(loc, u).offset}}) :
          u \in {t}})

\* time.Date(year, month, day, hour, minute, 0, 0, loc): the wall clock is
\* looked up as if it were UTC (unix, l), and once more if the offset found
\* is not in force at the instant it leads to
DateAt(unix, l, loc) ==
  LET utc == unix - l.offset
      offset == IF utc < l.start \/ utc >= l.end
                THEN lookup(loc, utc).offset
                ELSE l.offset
  IN  IF l.offset # 0 THEN unix - offset ELSE unix

Date(year, month, day, hour, minute, loc) ==
  Only({Only({DateAt(unix, l, loc) : l \in {lookup(loc, unix)}}) :
          unix \in {Instant(year, month, day, hour, minute)}})

\* Time.AddDate(0, 0, days)
AddDate(t, days, loc) ==
  Only({Date(f.year, f.month, f.day + days, f.hour, f.minute, loc) :
          f \in {In(t, loc)}})

\* BookingWindow.CalculateRunTime: [err, runTime]
CalculateRunTime(bw, reservationTime) ==
  LET l == LoadLocation(bw.Timezone) IN
  IF l = <<>> THEN [err |-> "invalid timezone", runTime |-> 0]
  ELSE Only({[err |-> "",
              runTime |-> Date(releaseDate.year, releaseDate.month,
                               releaseDate.day, bw.ReleaseHour,
                               bw.ReleaseMinute, l[1])] :
               releaseDate \in
                 {In(AddDate(reservationTime, 0 - bw.DaysInAdvance, l[1]),
                     l[1])}})

Timezones == {"UTC", "America/New_York", "America/Havana", "Mars/Phobos"}
DaysInAdvanceSet == {1, 30}
ReleaseTimes == {<<9, 0>>, <<2, 30>>, <<0, 0>>, <<23, 59>>}

BookingWindows ==
  {[DaysInAdvance |-> d, ReleaseHour |-> rel[1], ReleaseMinute |-> rel[2],
    Timezone |-> tz] :
     d \in DaysInAdvanceSet, rel \in ReleaseTimes, tz \in Timezones}

ReservationTimes ==
  {Instant(2025, 7, 31, 23, 0), Instant(2025, 4, 8, 4, 30),
   Instant(2025, 4, 8, 6, 30), Instant(2025, 12, 2, 6, 30),
   Instant(2025, 3, 10, 3, 30), Instant(2025, 1, 15, 0, 0),
   Instant(2025, 3, 31, 12, 0)}

WindowInit ==
  /\ QueueInit
  /\ rq = RqIdle
  /\ ck = CkIdle
  /\ rv = RvIdle
  /\ sl = SlIdle
  /\ vault = VaultIdle
  /\ hd = HdIdle
  /\ api = ApiIdle
  /\ lg = LgIdle
  /\ rf = RfIdle
  /\ sv = SvIdle
  /\ cr = CrIdle
  /\ vs = VsIdle
  /\ us = UsIdle
  /\ \E bw \in BookingWindows, r \in ReservationTimes :
       tm = [pc |-> "in", bw |-> <<bw>>, r |-> r, err |-> "", out |-> 0]

\* requestTime, err = bw.CalculateRunTime(reservationTime)
WindowCalculate ==
  /\ tm.pc = "in"
  /\ LET res == CalculateRunTime(tm.bw[1], tm.r)
     IN  tm' = [tm EXCEPT !.pc = "out", !.err = res.err,
                          !.out = res.runTime]
  /\ UNCHANGED <<queueVars, rq, ck, rv, sl, vault, hd, api, lg, rf, sv, cr, vs, us>>

WindowNext == WindowCalculate

WindowSpec == WindowInit /\ [][WindowNext]_vars

\* ------------------------------------------- POST /api/reserve, scheduled
MaxCalls == 2           \* requests handled in one run

nycLocation == LoadLocation("America/New_York")[1]

\* A datetime-local field of the request: <<year, month, day, hour,
\* minute>>, or <<>> for text that does not parse.
WallTimes ==
  {<<>>, <<2025, 7, 31, 19, 0>>, <<2025, 8, 1, 9, 0>>, <<2025, 4, 8, 2, 30>>}

\* parseTimeNYC: <<instant>>, or <<>> for a parse error
parseTimeNYC(w) ==
  IF w = <<>> THEN <<>>
  ELSE <<Date(w[1], w[2], w[3], w[4], w[5], nycLocation)>>

\* What GetOrScrapeBookingWindow returns: an error (<<>>), or a window of a
\* New York venue with at least one day in advance.
ScrapedWindows ==
  {<<>>} \cup {<<bw>> : bw \in {b \in BookingWindows :
                                 /\ b.Timezone = "America/New_York"
                                 /\ b.ReleaseHour \in {2, 9}}}

ReserveRequests ==
  [IsImmediate : BOOLEAN, AutoSchedule : BOOLEAN,
   ReservationTime : WallTimes, RequestTime : WallTimes]

\* the scheduling branch of the handler: the request time, or the response
\* that ends the request
requestTimeOf(req, reservationTime, window) ==
  IF req.AutoSchedule
  THEN IF window = <<>> THEN [status |-> 500, time |-> 0]
       ELSE LET c == CalculateRunTime(window[1], reservationTime)
            IN  IF c.err # "" THEN [status |-> 500, time |-> 0]
                ELSE [status |-> 0, time |-> c.runTime]
  ELSE LET t == parseTimeNYC(req.RequestTime)
       IN  IF t = <<>> THEN [status |-> 400, time |-> 0]
           ELSE [status |-> 0, time |-> t[1]]

\* POST /api/reserve past authentication and venue lookup; saveOk is the
\* outcome of SaveReservation
HandleReserve(req, window, saveOk) ==
  /\ hd.calls < MaxCalls
  /\ LET rt == parseTimeNYC(req.ReservationTime)
         rq0 == requestTimeOf(req, rt[1], window)
         answer(st) == [hd EXCEPT !.calls = @ + 1, !.status = st]
     IN  hd' =
           IF rt = <<>> THEN answer(400)
           ELSE IF req.IsImmediate THEN answer(200)
           ELSE IF rq0.status # 0 THEN answer(rq0.status)
           ELSE IF ~saveOk THEN answer(500)
           ELSE [hd EXCEPT
                   !.calls = @ + 1, !.status = 200,
                   !.stored = Append(@,
                     [ID |-> Len(hd.stored) + 1,
                      ReservationTime |-> rt[1],
                      RunTime |-> rq0.time,
                      UsageType |-> IF req.AutoSchedule THEN "concierge"
                                    ELSE "immediate"])]
  /\ UNCHANGED <<queueVars, rq, ck, rv, sl, vault, tm, api, lg, rf, sv, cr, vs, us>>

HandlerInit ==
  /\ QueueInit
  /\ rq = RqIdle
  /\ ck = CkIdle
  /\ rv = RvIdle
  /\ sl = SlIdle
  /\ vault = VaultIdle
  /\ tm = TmIdle
  /\ hd = HdIdle
  /\ api = ApiIdle
  /\ lg = LgIdle
  /\ rf = RfIdle
  /\ sv = SvIdle
  /\ cr = CrIdle
  /\ vs = VsIdle
  /\ us = UsIdle

\* The requests, by the branch they take: an unparseable reservation time,
\* an immediate one, a scheduled one with its own request time, an
\* auto-scheduled one.
HandlerNext ==
  \/ \E req \in {r \in ReserveRequests :
                   /\ r.ReservationTime = <<>>
                   /\ r.RequestTime = <<>>
                   /\ ~r.IsImmediate
                   /\ ~r.AutoSchedule} :
       HandleReserve(req, <<>>, TRUE)
  \/ \E req \in {r \in ReserveRequests :
                   /\ r.ReservationTime # <<>>
                   /\ r.RequestTime = <<>>
                   /\ r.IsImmediate
                   /\ ~r.AutoSchedule} :
       HandleReserve(req, <<>>, TRUE)
  \/ \E req \in {r \in ReserveRequests :
                   /\ r.ReservationTime # <<>>
                   /\ ~r.IsImmediate
                   /\ ~r.AutoSchedule},
        saveOk \in BOOLEAN :
       HandleReserve(req, <<>>, saveOk)
  \/ \E req \in {r \in ReserveRequests :
                   /\ r.ReservationTime # <<>>
                   /\ r.RequestTime = <<>>
                   /\ ~r.IsImmediate
                   /\ r.AutoSchedule},
        window \in ScrapedWindows, saveOk \in BOOLEAN :
       HandleReserve(req, window, saveOk)

HandlerSpec == HandlerInit /\ [][HandlerNext]_vars

\* ------------------------------------------- the shared API client value
\* main builds one API value (resyAPI) and hands its address to every
\* handler and to the scheduler; Cookies is a field of that value.  A cookie
\* carries the number of the Reserve invocation that loaded or set it.
MaxAttempts == 3        \* Reserve invocations in one run

Goroutines == {"scheduler", "handler"}
Venues == {1, 2}

\* store.GetCookies(venue): the session of venue 1; none for venue 2
StoredSession(venue) ==
  IF venue = 1
  THEN <<<<[name |-> "incap_ses_1", value |-> "stored"],
           [name |-> "nlbi_9", value |-> "stored"]>>>>
  ELSE <<>>

Stamp(cookies, no) ==
  [i \in 1..Len(cookies) |->
     [name |-> cookies[i].name, value |-> cookies[i].value, no |-> no]]

AttIdle == [pc |-> "idle", no |-> 0, venue |-> 0, tries |-> 0, sent |-> <<>>]

\* LoadCookiesFromStore: SetCookies on success, nothing on error
LoadCookiesFromStore(cookies, venue, no) ==
  IF StoredSession(venue) = <<>> THEN cookies
  ELSE Stamp(StoredSession(venue)[1], no)

\* Reserve is entered by a goroutine
ApiReserve(g, venue) ==
  /\ api.att[g].pc = "idle"
  /\ api.no < MaxAttempts
  /\ api' = [api EXCEPT
               !.no = @ + 1,
               !.Cookies = LoadCookiesFromStore(@, venue, api.no + 1),
               !.att[g] = [AttIdle EXCEPT !.pc = "request",
                                          !.no = api.no + 1,
                                          !.venue = venue]]
  /\ UNCHANGED <<queueVars, rq, ck, rv, sl, vault, tm, hd, lg, rf, sv, cr, vs, us>>

\* addCookiesToRequest and client.Do
ApiSend(g) ==
  /\ api.att[g].pc = "request"
  /\ api' = [api EXCEPT !.att[g].pc = "await",
                        !.att[g].sent = api.Cookies]
  /\ UNCHANGED <<queueVars, rq, ck, rv, sl, vault, tm, hd, lg, rf, sv, cr, vs, us>>

\* a WAF challenge sets a cookie; the request is sent again
ApiChallenge(g, name) ==
  /\ api.att[g].pc = "await"
  /\ api.att[g].tries < MaxRetries
  /\ api' = [api EXCEPT
               !.Cookies = AddOrUpdate(@, [name |-> name, value |-> "waf",
                                           no |-> api.att[g].no]),
               !.att[g].pc = "request",
               !.att[g].tries = @ + 1]
  /\ UNCHANGED <<queueVars, rq, ck, rv, sl, vault, tm, hd, lg, rf, sv, cr, vs, us>>

\* Reserve returns
ApiReturn(g) ==
  /\ api.att[g].pc = "await"
  /\ api' = [api EXCEPT !.att[g] = AttIdle]
  /\ UNCHANGED <<queueVars, rq, ck, rv, sl, vault, tm, hd, lg, rf, sv, cr, vs, us>>

ApiInit ==
  /\ QueueInit
  /\ rq = RqIdle
  /\ ck = CkIdle
  /\ rv = RvIdle
  /\ sl = SlIdle
  /\ vault = VaultIdle
  /\ tm = TmIdle
  /\ hd = HdIdle
  /\ api = ApiIdle
  /\ lg = LgIdle
  /\ rf = RfIdle
  /\ sv = SvIdle
  /\ cr = CrIdle
  /\ vs = VsIdle
  /\ us = UsIdle

ApiNext ==
  \/ \E g \in Goroutines, venue \in Venues : ApiReserve(g, venue)
  \/ \E g \in Goroutines : ApiSend(g)
  \/ \E g \in Goroutines, name \in {"incap_ses_1", "visid_incap_7"} :
       ApiChallenge(g, name)
  \/ \E g \in Goroutines : ApiReturn(g)

ApiSpec == ApiInit /\ [][ApiNext]_vars

\* --------------------------------------------------- in-memory log buffer
\* A line is identified with the ordinal of its append (the order in which
\* the appendLog calls took logMu).
LogWriters == {"scheduler", "handler"}
LogReader == "logs"

\* faulty variant: a full buffer is not trimmed
TrimNever(lines) == lines

\* if len(logLines) >= maxLogLines { logLines = logLines[1:] }
TrimOldest(lines) == IF Len(lines) >= maxLogLines THEN Tail(lines) ELSE lines

\* logMu.Lock() in appendLog
AppendLock(g) ==
  /\ lg.pc[g] = "idle"
  /\ lg.mu = ""
  /\ lg.appended < MaxAppends
  /\ lg' = [lg EXCEPT !.mu = g, !.pc[g] = "trim"]
  /\ UNCHANGED <<queueVars, rq, ck, rv, sl, vault, tm, hd, api, rf, sv, cr, vs, us>>

AppendTrim(g) ==
  /\ lg.pc[g] = "trim"
  /\ lg' = [lg EXCEPT !.lines = TrimOldest(lg.lines), !.pc[g] = "append"]
  /\ UNCHANGED <<queueVars, rq, ck, rv, sl, vault, tm, hd, api, rf, sv, cr, vs, us>>

\* logLines = append(logLines, ...); the deferred logMu.Unlock()
AppendWrite(g) ==
  /\ lg.pc[g] = "append"
  /\ lg' = [lg EXCEPT !.lines = Append(lg.lines, lg.appended + 1),
                      !.appended = lg.appended + 1,
                      !.mu = "", !.pc[g] = "idle"]
  /\ UNCHANGED <<queueVars, rq, ck, rv, sl, vault, tm, hd, api, rf, sv, cr, vs, us>>

\* GET /api/logs: logMu.Lock()
LogsLock ==
  /\ lg.pc[LogReader] = "idle"
  /\ lg.mu = ""
  /\ lg' = [lg EXCEPT !.mu = LogReader, !.pc[LogReader] = "copy"]
  /\ UNCHANGED <<queueVars, rq, ck, rv, sl, vault, tm, hd, api, rf, sv, cr, vs, us>>

\* lines := make(...); copy(lines, logLines); logMu.Unlock()
LogsCopy ==
  /\ lg.pc[LogReader] = "copy"
  /\ lg' = [lg EXCEPT !.snap = lg.lines, !.snapAt = lg.appended,
                      !.mu = "", !.pc[LogReader] = "encode"]
  /\ UNCHANGED <<queueVars, rq, ck, rv, sl, vault, tm, hd, api, rf, sv, cr, vs, us>>

\* json.NewEncoder(w).Encode(lines): the response is written
LogsEncode ==
  /\ lg.pc[LogReader] = "encode"
  /\ lg' = [lg EXCEPT !.snap = <<>>, !.snapAt = 0, !.pc[LogReader] = "idle"]
  /\ UNCHANGED <<queueVars, rq, ck, rv, sl, vault, tm, hd, api, rf, sv, cr, vs, us>>

LogInit ==
  /\ QueueInit
  /\ rq = RqIdle
  /\ ck = CkIdle
  /\ rv = RvIdle
  /\ sl = SlIdle
  /\ vault = VaultIdle
  /\ tm = TmIdle
  /\ hd = HdIdle
  /\ api = ApiIdle
  /\ lg = LgIdle
  /\ rf = RfIdle
  /\ sv = SvIdle
  /\ cr = CrIdle
  /\ vs = VsIdle
  /\ us = UsIdle

LogNext ==
  \/ \E g \in LogWriters : AppendLock(g)
  \/ \E g \in LogWriters : AppendTrim(g)
  \/ \E g \in LogWriters : AppendWrite(g)
  \/ LogsLock
  \/ LogsCopy
  \/ LogsEncode

LogSpec == LogInit /\ [][LogNext]_vars

\* ------------------------------------------------------- cookie refresher
\* Durations are counted in hours.  A WAF session in the store is <<>> or
\* one record [ttl, by, no]: its remaining TTL and who wrote which content.
\* store/cookies.go (CookieExists, GetCookieTTL, SaveCookies) is not part of
\* the source tree: a session is one key with an expiry, SaveCookies one write.
VenueIDs == <<1, 2>>               \* cfg.VenueIDs()
ImportTTLs == {1, 2, 3}            \* ttl_hours of an admin import
StoreResults == {"ok", "err"}

\* faulty variant: a session with exactly 2 hours left is skipped
StaleStrict(ttl) == ttl < RefreshBelow

\* !(ttl > 2*time.Hour)
Stale(ttl) == ~(ttl > RefreshBelow)

\* the reply of TTL for a key that is gone
NoKeyTTL == -2

CookieExists(sessions, v) == sessions[v] # <<>>
GetCookieTTL(sessions, v) ==
  IF sessions[v] = <<>> THEN NoKeyTTL ELSE sessions[v][1].ttl
SaveCookies(sessions, v, by, no, ttl) ==
  [sessions EXCEPT ![v] = <<[ttl |-> ttl, by |-> by, no |-> no]>>]

\* one hour passes: every TTL shrinks, a session at its TTL is evicted
Expire(s) ==
  IF s = <<>> \/ s[1].ttl <= 1 THEN <<>>
  ELSE <<[s[1] EXCEPT !.ttl = @ - 1]>>

RfHour ==
  /\ rf.hours < MaxHours
  /\ rf' = [rf EXCEPT !.hours = @ + 1,
                      !.sessions = [v \in DOMAIN rf.sessions |->
                                      Expire(rf.sessions[v])]]
  /\ UNCHANGED <<queueVars, rq, ck, rv, sl, vault, tm, hd, api, lg, sv, cr, vs, us>>

\* POST /api/cookies/import: SaveCookies with the request's TTL
RfImport(v, ttl) ==
  /\ rf.imports < MaxImports
  /\ rf' = [rf EXCEPT !.imports = @ + 1,
                      !.sessions = SaveCookies(rf.sessions, v, "admin",
                                               rf.imports + 1, ttl)]
  /\ UNCHANGED <<queueVars, rq, ck, rv, sl, vault, tm, hd, api, lg, sv, cr, vs, us>>

\* the start-up run, or ticker.C fires: refreshAllCookies begins
RfCycle ==
  /\ rf.pc = "wait"
  /\ ~rf.done
  /\ rf.cycles < MaxCycles
  /\ rf' = [rf EXCEPT !.pc = "venue", !.idx = 1, !.cycles = @ + 1,
                      !.note = ""]
  /\ UNCHANGED <<queueVars, rq, ck, rv, sl, vault, tm, hd, api, lg, sv, cr, vs, us>>

\* refreshCookiesIfNeeded returns: on to the next venue
RfNextVenue(note) == [rf EXCEPT !.pc = "venue", !.idx = @ + 1, !.note = note]

\* for _, venueID := range venueIDs { select { case <-ctx.Done(): return ...
RfVenue ==
  /\ rf.pc = "venue"
  /\ rf' = IF rf.done \/ rf.idx > Len(VenueIDs)
           THEN [rf EXCEPT !.pc = "wait", !.idx = 0]
           ELSE [rf EXCEPT !.pc = "exists", !.note = ""]
  /\ UNCHANGED <<queueVars, rq, ck, rv, sl, vault, tm, hd, api, lg, sv, cr, vs, us>>

RfExists(r) ==
  /\ rf.pc = "exists"
  /\ rf' = IF r = "err" THEN RfNextVenue("exists-err")
           ELSE IF CookieExists(rf.sessions, VenueIDs[rf.idx])
           THEN [rf EXCEPT !.pc = "ttl"]
           ELSE [rf EXCEPT !.pc = "fetch", !.note = "absent"]
  /\ UNCHANGED <<queueVars, rq, ck, rv, sl, vault, tm, hd, api, lg, sv, cr, vs, us>>

RfTTL(r) ==
  /\ rf.pc = "ttl"
  /\ rf' = IF r = "err" THEN RfNextVenue("ttl-err")
           ELSE IF Stale(GetCookieTTL(rf.sessions, VenueIDs[rf.idx]))
           THEN [rf EXCEPT !.pc = "fetch", !.note = "expiring"]
           ELSE RfNextVenue("skip")
  /\ UNCHANGED <<queueVars, rq, ck, rv, sl, vault, tm, hd, api, lg, sv, cr, vs, us>>

\* imperva.FetchCookies(venueID)
RfFetch(r) ==
  /\ rf.pc = "fetch"
  /\ rf' = IF r = "err" THEN [RfNextVenue("fetch-err") EXCEPT !.fetches = @ + 1]
           ELSE [rf EXCEPT !.pc = "save", !.fetches = @ + 1,
                           !.data = rf.fetches + 1]
  /\ UNCHANGED <<queueVars, rq, ck, rv, sl, vault, tm, hd, api, lg, sv, cr, vs, us>>

\* store.SaveCookies(ctx, venueID, ..., 24*time.Hour)
RfSave(r) ==
  /\ rf.pc = "save"
  /\ rf' = IF r = "err" THEN [RfNextVenue("save-err") EXCEPT !.data = 0]
           ELSE [RfNextVenue("saved") EXCEPT
                   !.data = 0,
                   !.sessions = SaveCookies(rf.sessions, VenueIDs[rf.idx],
                                            "refresher", rf.data, SessionTTL)]
  /\ UNCHANGED <<queueVars, rq, ck, rv, sl, vault, tm, hd, api, lg, sv, cr, vs, us>>

\* SIGINT / SIGTERM: the refresher's context is cancelled
RfShutdown ==
  /\ ~rf.done
  /\ rf' = [rf EXCEPT !.done = TRUE]
  /\ UNCHANGED <<queueVars, rq, ck, rv, sl, vault, tm, hd, api, lg, sv, cr, vs, us>>

\* case <-ctx.Done(): return
RfStop ==
  /\ rf.pc = "wait"
  /\ rf.done
  /\ rf' = [rf EXCEPT !.pc = "stopped"]
  /\ UNCHANGED <<queueVars, rq, ck, rv, sl, vault, tm, hd, api, lg, sv, cr, vs, us>>

RefreshInit ==
  /\ QueueInit
  /\ rq = RqIdle
  /\ ck = CkIdle
  /\ rv = RvIdle
  /\ sl = SlIdle
  /\ vault = VaultIdle
  /\ tm = TmIdle
  /\ hd = HdIdle
  /\ api = ApiIdle
  /\ lg = LgIdle
  /\ rf = RfIdle
  /\ sv = SvIdle
  /\ cr = CrIdle
  /\ vs = VsIdle
  /\ us = UsIdle

RefreshNext ==
  \/ RfHour
  \/ \E v \in DOMAIN RfIdle.sessions, ttl \in ImportTTLs : RfImport(v, ttl)
  \/ RfCycle
  \/ RfVenue
  \/ \E r \in StoreResults : RfExists(r)
  \/ \E r \in StoreResults : RfTTL(r)
  \/ \E r \in StoreResults : RfFetch(r)
  \/ \E r \in StoreResults : RfSave(r)
  \/ RfShutdown
  \/ RfStop

RefreshSpec == RefreshInit /\ [][RefreshNext]_vars

\* ------------------------------------- clock-derived ids, concurrent saves
\* store/reservations.go is not part of the source tree.  Its tests say what
\* GenerateReservationID is: "res_" followed by the nanosecond clock reading
\* ("with nanosecond precision and sleep, they should differ"; "Small delay
\* to ensure unique timestamps for GenerateReservationID").  An id is
\* identified with the clock reading it was made from.
Handlers == {"h1", "h2"}

GenerateReservationID(clock) == clock

\* the clock moves on to its next reading
SvClock ==
  /\ sv.clock < MaxClock
  /\ sv' = [sv EXCEPT !.clock = @ + 1]
  /\ UNCHANGED <<queueVars, rq, ck, rv, sl, vault, tm, hd, api, lg, rf, cr, vs, us>>

\* resID := store.GenerateReservationID()
SvGenerate(x, rt, owner) ==
  /\ sv.h[x].pc = "idle"
  /\ sv.saves < MaxSaves
  /\ sv' = [sv EXCEPT !.saves = @ + 1,
                      !.h[x] = [pc |-> "record",
                                id |-> GenerateReservationID(sv.clock),
                                rt |-> rt, owner |-> owner, dup |-> FALSE,
                                alone |-> TRUE]]
  /\ UNCHANGED <<queueVars, rq, ck, rv, sl, vault, tm, hd, api, lg, rf, cr, vs, us>>

\* another handler is between the two writes of a save of id
SvWriting(x, id) ==
  \E y \in Handlers \ {x} : sv.h[y].pc = "index" /\ sv.h[y].id = id

\* SaveReservation: the record is written (dup: the id was pending then;
\* alone: no other save of the id has written since this one began)
SvRecord(x) ==
  /\ sv.h[x].pc = "record"
  /\ records' = PutKey(records, sv.h[x].id,
                       [rt |-> sv.h[x].rt, owner |-> sv.h[x].owner])
  /\ sv' = [sv EXCEPT
              !.h = [y \in Handlers |->
                       IF y = x
                       THEN [sv.h[x] EXCEPT
                               !.pc = "index",
                               !.dup = sv.h[x].id \in ZMembers(pending),
                               !.alone = ~SvWriting(x, sv.h[x].id)]
                       ELSE IF sv.h[y].pc = "index" /\ sv.h[y].id = sv.h[x].id
                       THEN [sv.h[y] EXCEPT !.alone = FALSE]
                       ELSE sv.h[y]]]
  /\ UNCHANGED <<now, pending, byOwner, nextId, enq, can, sched, shutdown,
                 execLog, rq, ck, rv, sl, vault, tm, hd, api, lg, rf, cr,
                 vs, us>>

\* SaveReservation: the indexes are written; the handler answers with the id
SvIndex(x) ==
  /\ sv.h[x].pc = "index"
  /\ pending' = ZAdd(pending, Score(sv.h[x].rt), sv.h[x].id)
  /\ byOwner' = IF sv.h[x].owner = NoOwner THEN byOwner
                ELSE [byOwner EXCEPT ![sv.h[x].owner] = @ \cup {sv.h[x].id}]
  /\ sv' = [sv EXCEPT !.h[x] = SvIdle.h[x],
                      !.out = Append(@, [by |-> x, id |-> sv.h[x].id,
                                         rt |-> sv.h[x].rt])]
  /\ UNCHANGED <<now, records, nextId, enq, can, sched, shutdown,
                 execLog, rq, ck, rv, sl, vault, tm, hd, api, lg, rf, cr,
                 vs, us>>

SaveInit ==
  /\ QueueInit
  /\ rq = RqIdle
  /\ ck = CkIdle
  /\ rv = RvIdle
  /\ sl = SlIdle
  /\ vault = VaultIdle
  /\ tm = TmIdle
  /\ hd = HdIdle
  /\ api = ApiIdle
  /\ lg = LgIdle
  /\ rf = RfIdle
  /\ sv = SvIdle
  /\ cr = CrIdle
  /\ vs = VsIdle
  /\ us = UsIdle

SaveNext ==
  \/ SvClock
  \/ \E x \in Handlers, rt \in RunTimes, o \in Owners : SvGenerate(x, rt, o)
  \/ \E x \in Handlers : SvRecord(x)
  \/ \E x \in Handlers : SvIndex(x)

SaveSpec == SaveInit /\ [][SaveNext]_vars

\* the request handlers of the queue, enqueue and cancel, with the cancel
\* handler's not-found answers recorded
CancelNext ==
  \/ \E rt \in RunTimes, o \in Owners : EnqueueRecord(rt, o)
  \/ EnqueueIndex
  \/ \E id \in CancelIds, u \in Users : CancelGet(id, u)
  \/ CancelDelZ
  \/ CancelDelRec
  \/ \E id \in CancelIds, u \in Users : CancelReject(id, u)

CancelSpec == Init /\ [][CancelNext]_vars

\* ------------------------------------------------ orphaned queue member
\* A queue in which one member of the sorted set has no record: the state
\* the store is left in when the record key of a pending reservation is gone
\* while its membership stays (a save under an id that is being deleted
\* writes its membership after the delete removed the record; or the key is
\* lost in the shared store).  No request arrives; the store answers every
\* call.
OrphanInit ==
  \E n \in 2..MaxIds :
    \E f \in [1..n -> [rt : RunTimes, owner : Owners]], lost \in 1..n :
      /\ now = 0
      /\ records = DropKey(f, lost)
      /\ pending = PreloadZ(f, n)
      /\ byOwner = [o \in Owners \ {NoOwner} |->
                      {i \in (1..n) \ {lost} : f[i].owner = o}]
      /\ nextId = n + 1
      /\ enq = EnqIdle
      /\ can = CanIdle
      /\ sched = SchedIdle
      /\ shutdown = FALSE
      /\ execLog = <<>>
      /\ rq = RqIdle
      /\ ExtInit

OrphanNext ==
  \/ Tick
  \/ SchedStep
  \/ SchedDelZ
  \/ SchedDelRec

\* Time advances and the scheduler goroutine keeps running.
OrphanSpec ==
  /\ OrphanInit
  /\ [][OrphanNext]_vars
  /\ WF_vars(Tick)
  /\ WF_vars(SchedStep)
  /\ WF_vars(SchedDelZ)
  /\ WF_vars(SchedDelRec)

\* ------------------------------------------------- booking-window scrape
\* The venue page as the scraper reads it.  next is the decoded
\* __NEXT_DATA__ blob: absent (<<>>), or whether props.pageProps is there and
\* the values under the one key that names the days and the one that names
\* the release time (days: a JSON number or nothing; time: a string, ""
\* when the key is absent).  html is the lower-cased body reduced to what the
\* patterns capture: the numerals of the day patterns that match, in pattern
\* order, and the text from the hour of the first release phrase on ("" when
\* no phrase matches).
MaxScrapes == 2         \* resolver calls in one run
ScrapeAttempts == 3     \* ScrapeBookingWindowWithRetry(venueID, 3)
MaxDays == 365          \* days <= 365 in parseHTMLContent

JsonDays == {<<>>, <<0>>, <<30>>, <<366>>, <<-3>>}
ClockStrings == {"", "9:00 AM", "10:30", "25:00", "9:75", "13pm", "noon"}
HtmlDays == {<<>>, <<"0">>, <<"14">>, <<"400", "7">>}
HtmlClocks == {"", "10am", "12", "25:00", "9:75 pm"}

NextDatas ==
  {<<>>} \cup {<<[props |-> p, days |-> d, time |-> t]>> :
                 p \in BOOLEAN, d \in JsonDays, t \in ClockStrings}
Pages == [next : NextDatas, html : [days : HtmlDays, time : HtmlClocks]]

IsDigitAt(s, i) == i <= Len(s) /\ IndexFrom(Digits, SubSeq(s, i, i), 1) # 0

\* strconv.Atoi of a run of digits
Atoi(s) == IF s = "" THEN 0 ELSE ParseNat(s, 0)[1]

\* time.Parse, getnum(s, fixed): <<n, rest>>, or <<>>
getnum(s, fixed) ==
  IF ~IsDigitAt(s, 1) THEN <<>>
  ELSE IF ~IsDigitAt(s, 2)
  THEN IF fixed THEN <<>> ELSE <<Atoi(SubSeq(s, 1, 1)), SubSeq(s, 2, Len(s))>>
  ELSE <<Atoi(SubSeq(s, 1, 2)), SubSeq(s, 3, Len(s))>>

RECURSIVE cutspace(_)
cutspace(s) ==
  IF Len(s) > 0 /\ SubSeq(s, 1, 1) = " " THEN cutspace(SubSeq(s, 2, Len(s)))
  ELSE s

\* time.Parse(layout, value) for the layouts of parseReleaseTime, a layout
\* given as its chunks: <<hour, minute>>, or <<>> for an error
RECURSIVE ParseClock(_, _, _)
ParseChunk(layout, value, t) ==
  IF layout = <<>>
  THEN IF value # "" THEN <<>>
       ELSE IF t.pm /\ t.hour < 12 THEN <<t.hour + 12, t.min>>
       ELSE IF t.am /\ t.hour = 12 THEN <<0, t.min>>
       ELSE <<t.hour, t.min>>
  ELSE LET c == Head(layout)
           rest == Tail(layout)
       IN
       IF c = "3" \/ c = "15"
       THEN LET n == getnum(value, FALSE) IN
              IF n = <<>> THEN <<>>
              ELSE IF c = "3" /\ n[1] > 12 THEN <<>>
              ELSE IF c = "15" /\ n[1] >= 24 THEN <<>>
              ELSE ParseClock(rest, n[2], [t EXCEPT !.hour = n[1]])
       ELSE IF c = "04"
       THEN LET n == getnum(value, TRUE) IN
              IF n = <<>> THEN <<>>
              ELSE IF n[1] >= 60 THEN <<>>
              ELSE ParseClock(rest, n[2], [t EXCEPT !.min = n[1]])
       ELSE IF c = "PM"
       THEN IF Len(value) < 2 THEN <<>>
            ELSE IF SubSeq(value, 1, 2) = "PM"
            THEN ParseClock(rest, SubSeq(value, 3, Len(value)),
                            [t EXCEPT !.pm = TRUE])
            ELSE IF SubSeq(value, 1, 2) = "AM"
            THEN ParseClock(rest, SubSeq(value, 3, Len(value)),
                            [t EXCEPT !.am = TRUE])
            ELSE <<>>
       ELSE IF c = " "
       THEN IF Len(value) > 0 /\ SubSeq(value, 1, 1) # " " THEN <<>>
            ELSE ParseClock(rest, cutspace(value), t)
       ELSE IF Len(value) = 0 \/ SubSeq(value, 1, 1) # c THEN <<>>
            ELSE ParseClock(rest, SubSeq(value, 2, Len(value)), t)

ParseClock(layout, value, t) ==
  Only({ParseChunk(l, v, u) : l \in {layout}, v \in {value}, u \in {t}})

\* "3:04 PM", "3:04PM", "15:04", "3PM", "3 PM"
ClockLayouts ==
  << <<"3", ":", "04", " ", "PM">>, <<"3", ":", "04", "PM">>,
     <<"15", ":", "04">>, <<"3", "PM">>, <<"3", " ", "PM">> >>

\* the leftmost match of (\d{1,2}):?(\d{2})?\s*(am|pm|AM|PM)? starting at
\* or after position i: <<hour digits, minute digits, suffix>>, or <<>>
RECURSIVE ClockMatch(_, _, _)
ClockMatch(s, i, suffixes) ==
  IF i > Len(s) THEN <<>>
  ELSE IF ~IsDigitAt(s, i) THEN ClockMatch(s, i + 1, suffixes)
  ELSE LET hEnd == IF IsDigitAt(s, i + 1) THEN i + 1 ELSE i
           a == IF hEnd < Len(s) /\ SubSeq(s, hEnd + 1, hEnd + 1) = ":"
                THEN hEnd + 1 ELSE hEnd
           mEnd == IF IsDigitAt(s, a + 1) /\ IsDigitAt(s, a + 2)
                   THEN a + 2 ELSE a
           tail == cutspace(SubSeq(s, mEnd + 1, Len(s)))
           ap == IF Len(tail) >= 2 /\ SubSeq(tail, 1, 2) \in suffixes
                 THEN SubSeq(tail, 1, 2) ELSE ""
       IN  <<SubSeq(s, i, hEnd), SubSeq(s, a + 1, mEnd), ap>>

\* the regular-expression branch of parseReleaseTime on a match m
ClockOfMatch(m) ==
  LET isPM == ToLower(m[3]) = "pm"
      h == Atoi(m[1])
  IN  <<IF isPM /\ h # 12 THEN h + 12
        ELSE IF ~isPM /\ h = 12 THEN 0 ELSE h,
        Atoi(m[2])>>

\* the layouts tried in order on s, then the regular expression
ReleaseClock(s, hour, minute) ==
  LET zero == [hour |-> 0, min |-> 0, pm |-> FALSE, am |-> FALSE]
      hit(k) == ParseClock(ClockLayouts[k], s, zero) # <<>>
      hits == {k \in 1..Len(ClockLayouts) : hit(k)}
  IN  IF hits # {}
      THEN ParseClock(ClockLayouts[CHOOSE k \in hits : \A j \in hits : k <= j],
                      s, zero)
      ELSE Only({IF m = <<>> THEN <<hour, minute>> ELSE ClockOfMatch(m) :
                   m \in {ClockMatch(s, 1, {"am", "pm", "AM", "PM"})}})

\* parseReleaseTime(timeStr, bw): the release hour and minute it leaves
parseReleaseTime(timeStr, hour, minute) ==
  Only({ReleaseClock(s, hour, minute) : s \in {TrimSpace(timeStr)}})

Window(days, clock) ==
  [DaysInAdvance |-> days, ReleaseHour |-> clock[1],
   ReleaseMinute |-> clock[2], Timezone |-> "America/New_York"]

NoWindow(err) == [err |-> err, bw |-> <<>>]

\* faulty variant: the day count of the blob is not validated at all
parseNextDataAnyDays(next) ==
  IF ~next.props THEN NoWindow("props not found")
  ELSE [err |-> "",
        bw |-> <<Window(IF next.days = <<>> THEN 0 ELSE next.days[1],
                        IF next.time = "" THEN <<0, 0>>
                        ELSE parseReleaseTime(next.time, 0, 0))>>]

\* parseNextData with extractBookingWindowFromMap: int(num) for the days,
\* parseReleaseTime for the time, and only days = 0 is refused
parseNextData(next) ==
  IF ~next.props THEN NoWindow("props not found")
  ELSE LET days == IF next.days = <<>> THEN 0 ELSE next.days[1]
           clock == IF next.time = "" THEN <<0, 0>>
                    ELSE parseReleaseTime(next.time, 0, 0)
       IN  IF days = 0 THEN NoWindow("could not find days_in_advance")
           ELSE [err |-> "", bw |-> <<Window(days, clock)>>]

\* the first captured numeral with 0 < days <= 365, or 0
RECURSIVE FirstDays(_)
FirstDays(caps) ==
  IF caps = <<>> THEN 0
  ELSE IF Atoi(Head(caps)) > 0 /\ Atoi(Head(caps)) <= MaxDays
       THEN Atoi(Head(caps))
       ELSE FirstDays(Tail(caps))

\* parseHTMLContent: release time 9:00 unless a phrase matches
parseHTMLContent(html) ==
  LET days == FirstDays(html.days)
      clock(m) == IF m = <<>> THEN <<9, 0>>
                  ELSE LET isPM == m[3] = "pm"
                           h == Atoi(m[1])
                       IN  <<IF isPM /\ h # 12 THEN h + 12
                             ELSE IF ~isPM /\ m[3] = "am" /\ h = 12 THEN 0
                             ELSE h,
                             Atoi(m[2])>>
  IN  IF days = 0 THEN NoWindow("could not find booking window days")
      ELSE Only({[err |-> "", bw |-> <<Window(days, clock(m))>>] :
                   m \in {ClockMatch(html.time, 1, {"am", "pm"})}})

\* scrapeBookingWindowOnce past the page load: the blob first, the HTML as
\* the fallback
ChooseParsed(fromNext, fromHtml) ==
  IF fromNext.err = "" THEN [fromNext EXCEPT !.err = "json"]
  ELSE IF fromHtml.err = "" THEN [fromHtml EXCEPT !.err = "html"]
  ELSE NoWindow("failed to extract booking window from page")

scrapeBookingWindowOnce(page) ==
  Only({ChooseParsed(n, h) :
          n \in {IF page.next = <<>> THEN NoWindow("no blob")
                 ELSE parseNextData(page.next[1])},
          h \in {parseHTMLContent(page.html)}})

\* GetOrScrapeBookingWindow: a cached window is returned as it is
VsCall ==
  /\ vs.pc \in {"idle", "done"}
  /\ vs.calls < MaxScrapes
  /\ vs' = IF vs.cache # <<>>
           THEN [vs EXCEPT !.pc = "done", !.calls = @ + 1, !.out = vs.cache,
                           !.err = "", !.path = "cache", !.attempt = 0]
           ELSE [vs EXCEPT !.pc = "scrape", !.calls = @ + 1, !.out = <<>>,
                           !.err = "", !.path = "", !.attempt = 0]
  /\ UNCHANGED <<queueVars, rq, ck, rv, sl, vault, tm, hd, api, lg, rf, sv, cr, us>>

VsAttemptFailed(v) ==
  IF v.attempt + 1 < ScrapeAttempts
  THEN [v EXCEPT !.attempt = @ + 1]
  ELSE [v EXCEPT !.pc = "done", !.attempt = @ + 1,
                 !.err = "failed to scrape booking window"]

\* one scrapeBookingWindowOnce whose page load succeeds
VsScrape(page) ==
  /\ vs.pc = "scrape"
  /\ \E r \in {scrapeBookingWindowOnce(page)} :
       vs' = IF r.bw = <<>> THEN VsAttemptFailed(vs)
             ELSE [vs EXCEPT !.pc = "save", !.attempt = @ + 1, !.out = r.bw,
                             !.path = r.err]
  /\ UNCHANGED <<queueVars, rq, ck, rv, sl, vault, tm, hd, api, lg, rf, sv, cr, us>>

\* one scrapeBookingWindowOnce whose page load fails (chromedp.Run)
VsLoadFail ==
  /\ vs.pc = "scrape"
  /\ vs' = VsAttemptFailed(vs)
  /\ UNCHANGED <<queueVars, rq, ck, rv, sl, vault, tm, hd, api, lg, rf, sv, cr, us>>

\* store.SaveBookingWindow: a failure is logged, the window is returned
VsSave(ok) ==
  /\ vs.pc = "save"
  /\ vs' = [vs EXCEPT !.pc = "done", !.cache = IF ok THEN vs.out ELSE @]
  /\ UNCHANGED <<queueVars, rq, ck, rv, sl, vault, tm, hd, api, lg, rf, sv, cr, us>>

\* BookingWindowTTL runs out
VsExpire ==
  /\ vs.pc \in {"idle", "done"}
  /\ vs.cache # <<>>
  /\ vs' = [vs EXCEPT !.cache = <<>>]
  /\ UNCHANGED <<queueVars, rq, ck, rv, sl, vault, tm, hd, api, lg, rf, sv, cr, us>>

ScrapeInit ==
  /\ QueueInit
  /\ rq = RqIdle
  /\ ExtInit

ScrapeNext ==
  \/ VsCall
  \/ \E page \in Pages : VsScrape(page)
  \/ VsLoadFail
  \/ \E ok \in BOOLEAN : VsSave(ok)
  \/ VsExpire

ScrapeSpec == ScrapeInit /\ [][ScrapeNext]_vars

\* ----------------------------------------------------- usage callback
\* The scheduler alone on a queue that already holds n reservations, with
\* the web app URL configured or not; the delete after an attempt may
\* return an error.
UsageInit ==
  \E n \in 1..MaxIds :
    \E f \in [1..n -> [rt : RunTimes, owner : Owners]], url \in BOOLEAN :
      /\ now = 0
      /\ records = f
      /\ pending = PreloadZ(f, n)
      /\ byOwner = [o \in Owners \ {NoOwner} |-> {i \in 1..n : f[i].owner = o}]
      /\ nextId = n + 1
      /\ enq = EnqIdle
      /\ can = CanIdle
      /\ sched = SchedIdle
      /\ shutdown = FALSE
      /\ execLog = <<>>
      /\ rq = RqIdle
      /\ ck = CkIdle
      /\ rv = RvIdle
      /\ sl = SlIdle
      /\ vault = VaultIdle
      /\ tm = TmIdle
      /\ hd = HdIdle
      /\ api = ApiIdle
      /\ lg = LgIdle
      /\ rf = RfIdle
      /\ sv = SvIdle
      /\ cr = CrIdle
      /\ vs = VsIdle
      /\ us = [UsIdle EXCEPT !.url = url]

UsageNext ==
  \/ Tick
  \/ SchedStep
  \/ SchedDelZ
  \/ SchedDelRec
  \/ SchedDelFail

UsageSpec == UsageInit /\ [][UsageNext]_vars

\* ------------------------------------------------------------ properties
LogIdx == 1..Len(execLog)

\* C1: peek_next (GetNextReservation) returns a pending entry whose run_time
\* score is <= the score of every pending entry, and returns empty exactly
\* when no entry is pending.
C1_PeekNextIsMinimum ==
  LET r == GetNextReservation IN
    /\ (r = <<>>) <=> (CountPending = 0)
    /\ r # <<>> =>
         /\ r[1].id \in ZMembers(pending)
         /\ \A i \in 1..Len(pending) : Score(r[1].rt) <= pending[i].score

\* Two entries with different scores are pending, the one enqueued later is
\* the earlier to run, and it is the one peek_next returns.
C1_Witness ==
  /\ Len(pending) = 2
  /\ pending[1].score < pending[2].score
  /\ pending[1].member > pending[2].member
  /\ GetNextReservation # <<>>
  /\ GetNextReservation[1].id = pending[1].member

\* C2: every member of the pending sorted set has a record entry, in every
\* state, the intermediate states of enqueue and delete included.
C2_MemberHasRecord ==
  \A id \in ZMembers(pending) : id \in DOMAIN records

\* A delete is between its two writes (membership gone, record present), an
\* enqueue is between its two writes (record present, not yet a member), and
\* the scheduler is between reading the head id and reading its record.
C2_Witness ==
  /\ can.pc = "del_rec"
  /\ can.id[1] \in DOMAIN records
  /\ can.id[1] \notin ZMembers(pending)
  /\ enq.pc = "index"
  /\ enq.id[1] \in DOMAIN records
  /\ sched.pc = "peek_get"
  /\ sched.cand = can.id

\* C3 (as stated): any two executions are in non-decreasing run_time order.
C3_NonDecreasingOrder ==
  \A i, j \in LogIdx : i < j => execLog[i].rt <= execLog[j].rt

\* C3 (amended): if A's attempt starts before B's and B was a member of the
\* sorted set at the peek that returned A, then A.run_time <= B.run_time.
C3_OrderAmongPeeked ==
  \A i, j \in LogIdx :
    (i < j /\ execLog[j].id \in ZMembers(execLog[i].snap))
      => execLog[i].rt <= execLog[j].rt

\* Two executions; the second was pending when the first was peeked, was
\* enqueued before the first, and has the later run_time.
C3_Witness ==
  /\ Len(execLog) = 2
  /\ execLog[2].id \in ZMembers(execLog[1].snap)
  /\ execLog[2].id < execLog[1].id
  /\ execLog[1].rt < execLog[2].rt

\* C4: when the scheduler starts the attempt for A, no other reservation
\* that was pending at the peek which returned A has a smaller run_time.
C4_MinimumAtPeek ==
  \A k \in LogIdx :
    \A i \in 1..Len(execLog[k].snap) :
      execLog[k].snap[i].member # execLog[k].id
        => ~(execLog[k].snap[i].score < Score(execLog[k].rt))

\* An attempt started from a peek that saw another, earlier-enqueued entry
\* with a strictly later run_time.
C4_Witness ==
  \E k \in LogIdx :
    \E i \in 1..Len(execLog[k].snap) :
      /\ execLog[k].snap[i].member < execLog[k].id
      /\ execLog[k].snap[i].score > Score(execLog[k].rt)

\* C5: no attempt starts while now < run_time; an entry that is not yet due
\* only makes the scheduler sleep, for at most 30 seconds.
C5_NotBeforeRunTime ==
  /\ sched.pc = "reserve" => sched.res[1].rt <= now
  /\ sched.pc = "sleep" => sched.sleep <= SleepCap

\* The attempt for an entry with the latest run_time starts exactly when it
\* falls due.
C5_Witness ==
  /\ sched.pc = "reserve"
  /\ sched.res[1].rt = MaxTime
  /\ now = MaxTime

\* C6: Reserve is invoked at most once per reservation id.
C6_OneShot ==
  \A i, j \in LogIdx : i # j => execLog[i].id # execLog[j].id

\* C7: once the attempt for a reservation has returned, the entry is gone
\* from the queue when the scheduler is back at the top of its loop.
C7_DeletedBeforeNextPeek ==
  (sched.pc = "loop" /\ sched.done # <<>>)
    => /\ sched.done[1] \notin ZMembers(pending)
       /\ sched.done[1] \notin DOMAIN records

\* C8: an attempt never begins for a reservation that a cancel has already
\* removed.
C8_CancelledNeverAttempted ==
  [][(sched.pc # "reserve" /\ sched'.pc = "reserve")
       => sched.res[1].id \in DOMAIN records]_vars

Attempts(id) == Cardinality({i \in LogIdx : execLog[i].id = id})

\* C9: every fair execution reaches a state where nothing is pending and
\* no reservation has been attempted more than once (the cancel won and
\* nothing was executed, or the scheduler executed it once and deleted it).
C9_DrainsAfterOneShot ==
  <>(/\ CountPending = 0
     /\ \A id \in 1..(nextId - 1) :
          Attempts(id) <= 1)

\* The WAF challenge of the claim: 403, 500 or 503 with X-Cdn: Imperva, or
\* 500 with Server: nginx.
C10_Challenge(e) ==
  /\ e.kind = "resp"
  /\ \/ e.resp.status \in {403, 500, 503} /\ e.resp.xcdn = "Imperva"
     \/ e.resp.status = 500 /\ e.resp.server = "nginx"

\* C10: a request is sent at most 3 times; every send but the last was
\* answered by a WAF challenge; a non-challenge response is returned without
\* a further send; ErrImperva is returned exactly when 3 challenges came.
C10_RetryBudget ==
  LET n == Len(rq.sent) IN
    /\ n <= 3
    /\ \A i \in 1..n : i < n => C10_Challenge(rq.sent[i])
    /\ \A i \in 1..n :
         (rq.sent[i].kind = "resp" /\ ~C10_Challenge(rq.sent[i]))
           => (i = n /\ rq.pc = "done" /\ rq.result = "resp")
    /\ (rq.result = "ErrImperva")
         <=> (n = 3 /\ \A i \in 1..n : C10_Challenge(rq.sent[i]))

\* Two challenges (one of them the nginx 500) and then a 403 that is no
\* challenge: the third response is returned.
C10_Witness ==
  /\ Len(rq.sent) = 3
  /\ rq.sent[1].resp = [status |-> 500, xcdn |-> "", server |-> "nginx"]
  /\ rq.sent[2].resp = [status |-> 503, xcdn |-> "Imperva", server |-> ""]
  /\ rq.sent[3].resp = [status |-> 403, xcdn |-> "", server |-> "nginx"]
  /\ rq.result = "resp"

\* The recognized WAF prefixes of the claim.
C11_Recognized(n) ==
  \E p \in {"_incap_", "incap_ses_", "_visid_", "visid_incap_", "nlbi_"} :
    HasPrefix(n, p)

\* The recognized cookie a Set-Cookie line sets, if any.
C11_SetBy ==
  [line \in SetCookieLines |->
     LET nv == ParseNameValue(line) IN
       IF nv # <<>> /\ C11_Recognized(nv[1].name) THEN nv ELSE <<>>]

\* The cookies the last challenge set: for each recognized name, the value
\* of the last Set-Cookie line of that name.
C11_NewlySet ==
  {C11_SetBy[ck.lines[i]][1] :
     i \in {k \in 1..Len(ck.lines) :
              /\ C11_SetBy[ck.lines[k]] # <<>>
              /\ \A j \in (k + 1)..Len(ck.lines) :
                   C11_SetBy[ck.lines[j]] # <<>>
                     => C11_SetBy[ck.lines[j]][1].name
                          # C11_SetBy[ck.lines[k]][1].name}}

C11_Merged ==
  LET jar == ck.jar
      prev == ck.prev
      new == C11_NewlySet
      names == {c.name : c \in new}
      fresh == {n \in names : \A i \in 1..Len(prev) : prev[i].name # n}
  IN  ck.pc \in {"replay", "done"} =>
        /\ \A c \in new : \E i \in 1..Len(jar) : jar[i] = c
        /\ Len(jar) = Len(prev) + Cardinality(fresh)
        /\ \A i \in 1..Len(prev) :
             IF prev[i].name \in names
             THEN jar[i] \in new /\ jar[i].name = prev[i].name
             ELSE jar[i] = prev[i]
        /\ \A i \in (Len(prev) + 1)..Len(jar) : jar[i] \in new

C11_Replayed ==
  (ck.pc = "replay" /\ ck'.pc = "send")
    => \A c \in C11_NewlySet : \E i \in 1..Len(ck'.req) : ck'.req[i] = c

\* C11: after a challenge every recognized Set-Cookie is in the session, in
\* the place of the cookie of the same name if there was one; every other
\* cookie is unchanged, nothing unrecognized is merged, and the replayed
\* request carries every newly set cookie.
C11_CookiesMergedAndReplayed == []C11_Merged /\ [][C11_Replayed]_vars

\* The second challenge set nlbi_9 twice (the first line with a leading
\* space); the session held session=s0 and nlbi_9=old and had gained
\* _incap_a=v1 from the first challenge; nlbi_9=v4 took the place of
\* nlbi_9=old and the request is about to be replayed.
C11_Witness ==
  /\ ck.pc = "replay"
  /\ ck.attempt = 1
  /\ ck.prev = <<[name |-> "session", value |-> "s0"],
                 [name |-> "nlbi_9", value |-> "old"],
                 [name |-> "_incap_a", value |-> "v1"]>>
  /\ ck.lines = <<" nlbi_9=v3; Secure", "nlbi_9=v4">>
  /\ ck.jar = <<[name |-> "session", value |-> "s0"],
                [name |-> "nlbi_9", value |-> "v4"],
                [name |-> "_incap_a", value |-> "v1"]>>

\* C12: once FIND has succeeded, a failure in DETAIL or BOOK of one
\* candidate never ends the call: Reserve returns only with a booking, or
\* with 'no table' after the last candidate.
C12_PerSlotFailureProceeds ==
  (rv.pc = "done" /\ rv.found)
    => \/ rv.result = "booked"
       \/ rv.result = "no-table" /\ rv.k > RvTableRounds(rv.prefs)

C13_Distance(slot, w) ==
  IF slot.start >= w THEN slot.start - w ELSE w - slot.start

\* C13: only slots of the requested venue-local day (and of the preferred
\* type) are considered; a slot at the requested hour and minute is chosen
\* if there is one; else a slot at the least distance among those at most 30
\* minutes away (30 is eligible, 31 is not); else none.
C13_SlotChoice ==
  LET w == InNYC(sl.req)
      considered ==
        {j \in 1..Len(sl.slots) :
           /\ sl.slots[j].start \div 1440 = w \div 1440
           /\ sl.pref # <<>>
                => Contains(ToLower(sl.slots[j].type), sl.pref[1])}
      exact == {j \in considered : sl.slots[j].start % 1440 = w % 1440}
      near == {j \in considered : C13_Distance(sl.slots[j], w) <= 30}
  IN  sl.pc = "out" =>
        IF exact # {} THEN sl.idx \in exact
        ELSE IF near # {}
        THEN /\ sl.idx \in near
             /\ \A j \in near : C13_Distance(sl.slots[sl.idx], w)
                                  <= C13_Distance(sl.slots[j], w)
        ELSE sl.idx = 0

\* Requested 00:30 with preference "dining": the "Dining Room" slot 31
\* minutes later is passed over and the one 30 minutes later is chosen.
C13_Witness ==
  /\ sl.pc = "out"
  /\ InNYC(sl.req) = 1470
  /\ sl.pref = <<"dining">>
  /\ sl.slots = <<[start |-> 1501, type |-> "Dining Room"],
                  [start |-> 1500, type |-> "Dining Room"]>>
  /\ sl.idx = 2

C14_Strings == AuthTokens \cup {FormatInt(n) : n \in PaymentIds}

C15_Legacy(entry) ==
  /\ entry # <<>>
  /\ \/ ~hasEncryptionPrefix(entry[1].auth)
     \/ ~hasEncryptionPrefix(entry[1].pay)

C15_StoredPay(value) ==
  IF value.json = "number" THEN value.num ELSE ParseInt(value.text)[1]

C16_NoKey ==
  vault.key = "" =>
    /\ vault.op = "save"
         => /\ ~vault.out.ok
            /\ vault.out.err = "key-missing"
            /\ vault.entry = vault.before
    /\ (vault.op = "get" /\ vault.before # <<>>
          /\ ~C15_Legacy(vault.before))
         => ~vault.out.ok
    /\ (vault.op = "get" /\ C15_Legacy(vault.before))
         => vault.out = Creds(vault.before[1].auth.text,
                              C15_StoredPay(vault.before[1].pay))

C17_LocalMinutes(t, loc) == t + lookup(loc, t).offset

\* C17: with a valid timezone the run time, read in the window's timezone,
\* falls on the reservation's local date minus days_in_advance days, at
\* release_hour:release_minute; and 30 days, 09:00 America/New_York and
\* 2025-07-31T23:00Z give 2025-06-01T13:00Z.
C17_RunTimeInZone ==
  (tm.pc = "out" /\ LoadLocation(tm.bw[1].Timezone) # <<>>)
    => LET bw == tm.bw[1]
           loc == LoadLocation(bw.Timezone)[1]
           run == C17_LocalMinutes(tm.out, loc)
           res == C17_LocalMinutes(tm.r, loc)
       IN  /\ tm.err = ""
           /\ run \div DayLen = (res \div DayLen) - bw.DaysInAdvance
           /\ run % DayLen = bw.ReleaseHour * 60 + bw.ReleaseMinute
           /\ (/\ bw.DaysInAdvance = 30
               /\ bw.ReleaseHour = 9
               /\ bw.ReleaseMinute = 0
               /\ bw.Timezone = "America/New_York"
               /\ tm.r = Instant(2025, 7, 31, 23, 0))
                => tm.out = Instant(2025, 6, 1, 13, 0)

\* The date and wall-clock rule alone, away from the instants that do not
\* exist on the local clock.
C17_Rule ==
  (tm.pc = "out" /\ tm.bw[1].Timezone \in {"UTC", "America/New_York"}
     /\ <<tm.bw[1].ReleaseHour, tm.bw[1].ReleaseMinute>> # <<2, 30>>)
    => LET bw == tm.bw[1]
           loc == LoadLocation(bw.Timezone)[1]
           run == C17_LocalMinutes(tm.out, loc)
           res == C17_LocalMinutes(tm.r, loc)
       IN  /\ run \div DayLen = (res \div DayLen) - bw.DaysInAdvance
           /\ run % DayLen = bw.ReleaseHour * 60 + bw.ReleaseMinute

\* What the calculation returns for the worked example: 2025-07-01T13:00Z.
C17_Example ==
  (/\ tm.pc = "out"
   /\ tm.bw[1] = [DaysInAdvance |-> 30, ReleaseHour |-> 9,
                  ReleaseMinute |-> 0, Timezone |-> "America/New_York"]
   /\ tm.r = Instant(2025, 7, 31, 23, 0))
    => tm.out = Instant(2025, 7, 1, 13, 0)

\* The reservation at 00:30 Havana time on 2025-04-08, 30 days ahead: the
\* run time falls on 2025-03-08, not 2025-03-09.
C17_HavanaShift ==
  /\ tm.pc = "out"
  /\ tm.bw[1].Timezone = "America/Havana"
  /\ tm.bw[1].DaysInAdvance = 30
  /\ tm.bw[1].ReleaseHour = 9
  /\ tm.r = Instant(2025, 4, 8, 4, 30)
  /\ tm.out = Instant(2025, 3, 8, 14, 0)

\* C18: every stored reservation has run_time <= reservation_time, whether
\* the run time came from request_time or from the booking window, and keeps
\* the id it was enqueued under.
C18_RunTimeNotAfterReservation ==
  \A i \in 1..Len(hd.stored) :
    /\ hd.stored[i].RunTime <= hd.stored[i].ReservationTime
    /\ hd.stored[i].ID = i

\* The auto-scheduled half: a run time computed from the booking window
\* precedes the reservation.
C18_AutoScheduled ==
  \A i \in 1..Len(hd.stored) :
    hd.stored[i].UsageType = "concierge"
      => hd.stored[i].RunTime < hd.stored[i].ReservationTime

\* request_time 2025-08-01T09:00 is stored for a reservation at
\* 2025-07-31T19:00.
C18_LateRunTimeStored ==
  \E i \in 1..Len(hd.stored) :
    /\ hd.stored[i].UsageType = "immediate"
    /\ hd.stored[i].ReservationTime = Instant(2025, 7, 31, 23, 0)
    /\ hd.stored[i].RunTime = Instant(2025, 8, 1, 13, 0)

C19_Absent(id) == id \notin DOMAIN records /\ id \notin ZMembers(pending)

\* a step of DeleteReservation(id), and its last step
C19_DeleteStep(id) ==
  \/ can.pc \in {"del_z", "del_rec"} /\ can.id = <<id>>
       /\ (CancelDelZ \/ CancelDelRec)
  \/ sched.pc \in {"del_z", "del_rec"} /\ sched.res[1].id = id
       /\ (SchedDelZ \/ SchedDelRec)

C19_DeleteReturns(id) ==
  \/ can.pc = "del_rec" /\ can.id = <<id>> /\ CancelDelRec
  \/ sched.pc = "del_rec" /\ sched.res[1].id = id /\ SchedDelRec

C19_Step ==
  \A id \in Ids :
    /\ C19_DeleteReturns(id)
         => /\ id \notin DOMAIN records'
            /\ id \notin ZMembers(pending')
            /\ \A o \in DOMAIN byOwner' : id \notin byOwner'[o]
    /\ C19_DeleteStep(id)
         => /\ DropKey(records', id) = DropKey(records, id)
            /\ ZRem(pending', id) = ZRem(pending, id)
            /\ \A o \in DOMAIN byOwner :
                 byOwner'[o] \ {id} = byOwner[o] \ {id}
    /\ (C19_DeleteStep(id) /\ C19_Absent(id))
         => UNCHANGED <<records, pending, byOwner>>

C19_NoOp ==
  \A id \in Ids \cup {UnknownId} :
    C19_Absent(id)
      => /\ ZRem(pending, id) = pending
         /\ DropKey(records, id) = records

\* C19: when delete(id) returns, id is in neither the record map, nor the
\* pending set, nor any owner's set; every step of a delete leaves all other
\* entries as they were; and a delete of an id that is not there (deleted
\* before, or never enqueued) changes nothing.
C19_DeleteRemovesEverywhere == []C19_NoOp /\ [][C19_Step]_vars

\* The cancel handler is half-way through deleting an id that the scheduler
\* has meanwhile deleted completely, while another reservation is stored.
C19_Witness ==
  /\ can.pc = "del_rec"
  /\ C19_Absent(can.id[1])
  /\ sched.done = can.id
  /\ DOMAIN records # {}

C20_Count(seq, id) == Cardinality({i \in 1..Len(seq) : seq[i] = id})

\* ids for which /api/reserve has returned
C20_Enqueued == (1..(nextId - 1)) \ {enq.id[i] : i \in 1..Len(enq.id)}

C21_ReserveBegins == sched.pc # "reserve" /\ sched'.pc = "reserve"

\* C21: once the shutdown signal has been raised no Reserve invocation
\* begins; one already in flight may return.
C21_NoAttemptAfterShutdown == [][C21_ReserveBegins => ~shutdown]_vars

\* The signal arrives between the read of the head entry and the due check
\* of a legacy entry: the scheduler is in Reserve for an attempt it began
\* after the signal.
C21_AttemptAfterSignal ==
  /\ shutdown
  /\ sched.pc = "reserve"
  /\ sched.res[1].owner = NoOwner
  /\ Len(execLog) = 1

\* C22: every cookie a Reserve invocation sends was loaded from the store by
\* that invocation at its entry, or set by a WAF challenge during it.
C22_OwnJar ==
  \A g \in Goroutines :
    \A i \in 1..Len(api.att[g].sent) :
      api.att[g].sent[i].no = api.att[g].no

\* The second invocation, for venue 2 whose session is absent, has sent the
\* cookies the first invocation loaded for venue 1.
C22_ForeignCookiesSent ==
  \E g \in Goroutines :
    /\ api.att[g].venue = 2
    /\ api.att[g].no = 2
    /\ Len(api.att[g].sent) = 2
    /\ \A i \in 1..2 : api.att[g].sent[i].no = 1
    /\ \A h \in Goroutines \ {g} : api.att[h].pc = "idle"

\* a delete of id has removed the sorted-set membership, or all of it
C23_DeleteBegun(id) ==
  \/ id \notin DOMAIN records
  \/ can.pc = "del_rec" /\ can.id = <<id>>
  \/ sched.pc = "del_rec" /\ sched.res[1].id = id

C23_Visible ==
  \A x \in C20_Enqueued :
    ~C23_DeleteBegun(x)
      => /\ x \in ZMembers(pending)
         /\ GetNextReservation # <<>>
         /\ \/ GetNextReservation[1].id = x
            \/ GetNextReservation[1].rt <= records[x].rt

\* the scheduler's peek returns a record
C23_PeekStep ==
  (sched.pc = "peek_get" /\ sched'.pc = "check")
    => \A i \in 1..Len(sched.snap) :
         \/ sched'.res[1].id = sched.snap[i].member
         \/ Score(sched'.res[1].rt) <= sched.snap[i].score

C24_Recent(lines, appended) ==
  \A i \in 1..Len(lines) : lines[i] = appended - Len(lines) + i

\* C24: the log never holds more than maxLogLines lines; what it holds are
\* the most recently appended lines in append order; whenever logMu is free
\* it holds all of them up to maxLogLines (a full buffer has lost exactly its
\* oldest line per append); and the copy /api/logs answers with is such a
\* buffer as of the moment it was taken.
C24_LastLinesKept ==
  /\ Len(lg.lines) <= maxLogLines
  /\ C24_Recent(lg.lines, lg.appended)
  /\ lg.mu = "" => Len(lg.lines) = Min(lg.appended, maxLogLines)
  /\ lg.pc[LogReader] = "encode"
       => /\ Len(lg.snap) = Min(lg.snapAt, maxLogLines)
          /\ C24_Recent(lg.snap, lg.snapAt)

\* More lines than the buffer holds have been appended, by both writers in
\* turn; the buffer is full and starts at the second-oldest line ever
\* written, and a snapshot of the full buffer is being answered while a
\* further append is between trimming and writing.
C24_Witness ==
  /\ lg.appended = maxLogLines + 1
  /\ Len(lg.lines) = maxLogLines - 1
  /\ lg.lines[1] = 3
  /\ lg.pc["handler"] = "append"
  /\ lg.pc[LogReader] = "encode"
  /\ Len(lg.snap) = maxLogLines
  /\ lg.snap[1] = 2

\* the session of the venue the refresher is at, and what the claim calls
\* "no session, or at most 2 hours left"
C25_Session == rf.sessions[VenueIDs[rf.idx]]
C25_NeedsFetch == C25_Session = <<>> \/ C25_Session[1].ttl <= 2

\* steps of the refresher: the check ends in a fetch, the check ends without
\* one, a fetched session is stored, any step at all
C25_FetchInvoked == rf.pc \in {"exists", "ttl"} /\ rf'.pc = "fetch"
C25_Left == rf.pc \in {"exists", "ttl"} /\ rf'.pc = "venue"
C25_Stored == rf.pc = "save" /\ rf'.note = "saved"
C25_RefresherStep == rf'.pc # rf.pc \/ rf'.idx # rf.idx

\* what a refresher step may do to the store
C25_Effect ==
  /\ C25_Stored
       => rf'.sessions =
            [rf.sessions EXCEPT ![VenueIDs[rf.idx]] =
               <<[ttl |-> 24, by |-> "refresher", no |-> rf.data]>>]
  /\ (C25_RefresherStep /\ ~C25_Stored) => rf'.sessions = rf.sessions

C26_DistinctIds ==
  /\ \A i, j \in 1..Len(sv.out) : i # j => sv.out[i].id # sv.out[j].id
  /\ \A x, y \in Handlers :
       (x # y /\ sv.h[x].pc # "idle" /\ sv.h[y].pc # "idle")
         => sv.h[x].id # sv.h[y].id

\* Two requests with different run times were both answered with the same
\* id, and one entry is pending: the first reservation has been replaced.
C26_SameIdTwice ==
  /\ Len(sv.out) = 2
  /\ sv.out[1].id = sv.out[2].id
  /\ sv.out[1].by # sv.out[2].by
  /\ sv.out[1].rt # sv.out[2].rt
  /\ Len(pending) = 1
  /\ records[sv.out[1].id].rt = sv.out[2].rt

\* handler x ends a save of an id that was pending when the save began
C27_Overwrites(x) ==
  sv.h[x].pc = "index" /\ sv'.h[x].pc = "idle" /\ sv.h[x].dup

C27_Overwritten(x) ==
  /\ sv.h[x].id \in DOMAIN records'
  /\ records'[sv.h[x].id] = [rt |-> sv.h[x].rt, owner |-> sv.h[x].owner]
  /\ Cardinality({i \in 1..Len(pending') :
                    pending'[i].member = sv.h[x].id}) = 1
  /\ \A i \in 1..Len(pending') :
       pending'[i].member = sv.h[x].id
         => pending'[i].score = Score(sv.h[x].rt)
  /\ Len(pending') = Len(pending)

\* C27: when a save of an id that is already pending returns, get(id) yields
\* the record just saved, the id is a member of the sorted set exactly once,
\* with the new run_time as score, and the number of pending entries is what
\* it was.
C27_DuplicateOverwrites ==
  [][\A x \in Handlers : C27_Overwrites(x) => C27_Overwritten(x)]_vars

\* the same for saves that no other save of the same id overlaps
C27_AloneOverwrites ==
  [][\A x \in Handlers :
       (C27_Overwrites(x) /\ sv.h[x].alone) => C27_Overwritten(x)]_vars

\* Three saves of one id: the third began after the first had returned and
\* overlapped the second; the pending entry has the run_time of one request
\* as its record and that of another as its score.
C27_MixedEntry ==
  /\ Len(sv.out) = 3
  /\ \A i \in 1..3 : sv.out[i].id = sv.out[1].id
  /\ Len(pending) = 1
  /\ pending[1].score # Score(records[pending[1].member].rt)

\* The same id was saved twice, the second time with an earlier run_time,
\* beside an entry with another id: two entries are pending, and the
\* overwritten one now comes first.
C27_SequentialWitness ==
  /\ Len(sv.out) = 3
  /\ sv.out[1].id = sv.out[3].id
  /\ sv.out[2].id # sv.out[1].id
  /\ sv.out[3].rt < sv.out[2].rt
  /\ sv.out[2].rt < sv.out[1].rt
  /\ Len(pending) = 2
  /\ pending[1].member = sv.out[3].id
  /\ records[sv.out[3].id].rt = sv.out[3].rt

\* the cancel handler answers a request with not-found; it returns from a
\* delete
C28_Rejects == cr' # cr
C28_DeleteDone == can.pc = "del_rec" /\ can'.pc = "idle"

C28_Step ==
  /\ C28_Rejects
       => /\ cr'.status = 404
          /\ UNCHANGED <<records, pending, byOwner>>
  /\ C28_DeleteDone
       => /\ can.id[1] \notin DOMAIN records'
          /\ can.id[1] \notin ZMembers(pending')
          /\ \A o \in DOMAIN byOwner' : can.id[1] \notin byOwner'[o]

\* what the handler does with a request for id by user, when it is idle
C28_Answer ==
  can.pc = "idle"
    => \A id \in DOMAIN records, u \in Users :
         /\ (u # NoOwner /\ records[id].owner # u)
              => (ENABLED CancelReject(id, u) /\ ~ENABLED CancelGet(id, u))
         /\ (u = NoOwner /\ id \in CancelIds)
              => (ENABLED CancelGet(id, u) /\ ~ENABLED CancelReject(id, u))

\* C28: a cancel request whose owner identifier differs from the
\* reservation's owner is never accepted: it is answered not-found, and that
\* answer changes neither the record, nor the sorted set, nor the owner
\* index; a request without owner identifier is accepted for any stored
\* reservation, whoever owns it, and the delete of an accepted request
\* removes the reservation from all three structures.
C28_ForeignCancelRejected == []C28_Answer /\ [][C28_Step]_vars

\* u2's request to cancel u1's reservation 1 has been answered not-found,
\* and the reservation is still stored, pending and indexed for u1; u1's
\* other reservation has since been cancelled.
C28_Witness ==
  /\ cr = [status |-> 404, id |-> <<1>>, user |-> "u2"]
  /\ 1 \in DOMAIN records
  /\ records[1].owner = "u1"
  /\ 1 \in ZMembers(pending)
  /\ byOwner["u1"] = {1}
  /\ nextId = 3
  /\ 2 \notin DOMAIN records
  /\ can.pc = "idle"

\* C29: GetPendingReservations returns exactly the pending entries whose
\* run_time is at or before the current time: every member of the sorted
\* set whose record's run_time is <= now is returned, once, and nothing
\* else is.
C29_ExactlyTheDue ==
  LET due == GetPendingReservations(records, pending, now) IN
    \A id \in Ids \cup {UnknownId} :
      C20_Count(due, id) =
        IF /\ id \in ZMembers(pending)
           /\ id \in DOMAIN records
           /\ records[id].rt <= now
        THEN 1 ELSE 0

\* Two entries are pending, the one enqueued first is not yet due and the
\* other falls due exactly now: only the latter is returned.
C29_Witness ==
  /\ Len(pending) = 2
  /\ 1 \in DOMAIN records /\ 2 \in DOMAIN records
  /\ records[1].rt > now
  /\ records[2].rt = now
  /\ now > 0
  /\ GetPendingReservations(records, pending, now) = <<2>>

\* a listing is in ascending run_time order and names no entry twice
C30_Sorted(list) ==
  \A i, j \in 1..Len(list) :
    i < j => /\ list[i] # list[j]
             /\ list[i] \in DOMAIN records
             /\ list[j] \in DOMAIN records
             /\ records[list[i]].rt <= records[list[j]].rt

C31_Live == {x \in C20_Enqueued : ~C23_DeleteBegun(x)}

\* C31: count_pending is the cardinality of the sorted set (no id is a
\* member twice), and that is the number of distinct ids that were enqueued
\* and not deleted since; it is 0 for the empty queue and 0 again when every
\* entry has been deleted.
C31_CountIsLiveIds ==
  /\ CountPending = Cardinality(ZMembers(pending))
  /\ CountPending = Cardinality(C31_Live)
  /\ (C20_Enqueued = {} \/ \A x \in C20_Enqueued : x \notin DOMAIN records)
       => CountPending = 0

\* Both ids were enqueued, one was cancelled and the other executed and
\* deleted by the scheduler: the count is back to 0.
C31_Witness ==
  /\ C20_Enqueued = {1, 2}
  /\ records = <<>>
  /\ Len(execLog) = 1
  /\ can.pc = "idle"
  /\ sched.pc = "loop"
  /\ CountPending = 0

\* a stored field is v1: ciphertext sealed under the key and nothing else
C32_Ciphertext(value, key) ==
  /\ value.json = "string"
  /\ value.text = "v1:"
  /\ value.box # <<>>
  /\ value.box[1].key = key

C32_Sealed(entry, key) ==
  /\ entry # <<>>
  /\ C32_Ciphertext(entry[1].auth, key)
  /\ C32_Ciphertext(entry[1].pay, key)

\* C32: with a key configured, whatever a save (a link) or the re-encrypting
\* save of a read writes to the store holds auth_token and payment_method_id
\* as v1: ciphertext under that key: a successful save leaves such an entry,
\* and no operation changes the entry to anything else.
C32_WritesOnlyCiphertext ==
  vault.key # "" =>
    /\ (vault.op = "save" /\ vault.out.ok) => C32_Sealed(vault.entry, vault.key)
    /\ (vault.op # "none" /\ vault.entry # vault.before)
         => C32_Sealed(vault.entry, vault.key)

\* A link over a legacy plaintext entry: the entry written is ciphertext.
C32_Witness ==
  /\ vault.key = "k1"
  /\ vault.op = "save"
  /\ vault.out.ok
  /\ C15_Legacy(vault.before)
  /\ vault.entry # vault.before
  /\ C32_Sealed(vault.entry, "k1")
  /\ vault.entry[1].pay.box[1].plain = "-7"

\* C33: a transport error on a send is retried like a WAF challenge, within
\* the budget of 3 sends: the error is returned to the caller only when it
\* came on the last send the budget allows.
C33_TransportRetried ==
  rq.result = "err" => Len(rq.sent) = MaxRetries + 1

\* What the client does instead: the send that fails in transport is the last
\* one, whatever is left of the budget, and its error is the result.
C33_TransportReturnedAtOnce ==
  \A i \in 1..Len(rq.sent) :
    rq.sent[i].kind = "err"
      => (i = Len(rq.sent) /\ rq.pc = "done" /\ rq.result = "err")

\* The first send fails in transport and the call is over.
C33_FirstSendFails ==
  /\ rq.pc = "done"
  /\ rq.result = "err"
  /\ Len(rq.sent) = 1

\* the members of the sorted set that have no record
C34_Orphans == ZMembers(pending) \ DOMAIN records

\* the scheduler is done with id: Reserve was invoked for it, or its entry
\* is gone
C34_Served(id) ==
  \/ \E i \in 1..Len(execLog) : execLog[i].id = id
  \/ id \notin DOMAIN records

\* C34: with a member of the sorted set whose record is missing, every
\* pending reservation that has a record is still served by the scheduler:
\* the orphan does not hold the head of the queue for ever.
C34_OrphanSkipped ==
  \A id \in Ids :
    (C34_Orphans # {} /\ id \in DOMAIN records /\ id \in ZMembers(pending))
      ~> C34_Served(id)

\* What the loop does: it never removes or passes an orphan, so while an
\* orphan is the head of the sorted set no Reserve begins.
C34_OrphanBlocks ==
  [][/\ C34_Orphans \subseteq C34_Orphans'
     /\ (pending # <<>> /\ pending[1].member \in C34_Orphans)
          => execLog' = execLog]_vars

\* The orphan is the head, the reservation behind it is long due, and the
\* scheduler sleeps its 30 s again.
C34_BlockedHead ==
  /\ Len(pending) = 2
  /\ pending[1].member \in C34_Orphans
  /\ pending[2].member \in DOMAIN records
  /\ records[pending[2].member].rt = 0
  /\ now = MaxTime
  /\ sched.pc = "sleep"
  /\ execLog = <<>>

\* Reserve was invoked for id
C35_Attempted(id) == \E i \in 1..Len(execLog) : execLog[i].id = id

\* C35: the scheduler removes an entry from the store only after it has
\* invoked Reserve for that entry: a scheduler delete in progress is always
\* the delete of an attempted entry, also for an entry with an owner whose
\* credentials could not be read.
C35_DeletedOnlyAfterAttempt ==
  sched.pc \in {"del_z", "del_rec"} => C35_Attempted(sched.res[1].id)

\* What holds instead: a scheduler delete follows an attempt of the entry,
\* or a failed credentials read for an entry with an owner.
C35_DeletedAfterAttemptOrNoCreds ==
  sched.pc \in {"del_z", "del_rec"}
    => \/ sched.attempted /\ C35_Attempted(sched.res[1].id)
       \/ ~sched.attempted /\ sched.res[1].owner # NoOwner

\* The entry of user u1 is gone from the sorted set although no Reserve was
\* ever invoked.
C35_DroppedUnattempted ==
  /\ sched.pc = "del_rec"
  /\ ~sched.attempted
  /\ sched.res[1].owner = "u1"
  /\ sched.res[1].id \notin ZMembers(pending)
  /\ execLog = <<>>

C36_InRange(bw) ==
  /\ 1 <= bw.DaysInAdvance /\ bw.DaysInAdvance <= 365
  /\ 0 <= bw.ReleaseHour /\ bw.ReleaseHour <= 23
  /\ 0 <= bw.ReleaseMinute /\ bw.ReleaseMinute <= 59

\* C36: every window the resolver returns or writes to the cache has
\* 1 <= days_in_advance <= 365, 0 <= release_hour <= 23 and
\* 0 <= release_minute <= 59, whichever parse path produced it; a scrape
\* without a day count ends in an error and caches nothing.
C36_WindowInRange ==
  /\ vs.out # <<>> => C36_InRange(vs.out[1])
  /\ vs.cache # <<>> => C36_InRange(vs.cache[1])

\* What the parsers guarantee: the day count is never 0, it is within 1..365
\* on the HTML path, hour and minute are never negative, and a call that
\* ends in an error returns no window and has cached none.
C36_DaysNeverZero ==
  /\ \A w \in {vs.out, vs.cache} :
       w # <<>> => /\ w[1].DaysInAdvance # 0
                   /\ w[1].ReleaseHour >= 0
                   /\ w[1].ReleaseMinute >= 0
  /\ (vs.out # <<>> /\ vs.path = "html")
       => (1 <= vs.out[1].DaysInAdvance /\ vs.out[1].DaysInAdvance <= 365)
  /\ (vs.pc = "done" /\ vs.err # "") => vs.out = <<>>
  /\ \A page \in Pages :
       (page.next = <<>> \/ ~page.next[1].props
          \/ page.next[1].days \in {<<>>, <<0>>})
         => scrapeBookingWindowOnce(page).err # "json"

\* A blob with 366 days and release time "25:00" was returned and cached.
C36_OutOfRangeCached ==
  /\ vs.pc = "done"
  /\ vs.path = "json"
  /\ vs.cache = vs.out
  /\ vs.out # <<>>
  /\ vs.out[1].DaysInAdvance = 366
  /\ vs.out[1].ReleaseHour = 25

\* The HTML fallback returned hour 21 and minute 75 for "9:75 pm".
C36_HtmlMinute75 ==
  /\ vs.path = "html"
  /\ vs.out # <<>>
  /\ vs.out[1].ReleaseHour = 21
  /\ vs.out[1].ReleaseMinute = 75

C37_Calls(id) == {i \in 1..Len(us.calls) : us.calls[i].id = id}

\* the step that posts a usage increment
C37_Posted == us.calls' # us.calls

\* C37: the usage increment is posted only after an attempt of the scheduler
\* that succeeded, at most once for one reservation, and whatever the POST
\* comes to (2xx, another status, an error, the 5 s timeout) the scheduler
\* goes on to delete the entry and does not stop.
C37_UsageCallback ==
  /\ [](/\ \A i \in 1..Len(us.calls) :
             /\ us.calls[i].o = "ok"
             /\ Len(execLog) = MaxExec \/ C35_Attempted(us.calls[i].id)
        /\ \A id \in Ids : Cardinality(C37_Calls(id)) <= 1
        /\ sched.pc # "stopped")
  /\ [][C37_Posted => (sched.pc = "reserve" /\ sched'.pc = "del_z")]_vars

\* The same without "at most once for one reservation": a reservation gets
\* at most as many posts as it had attempts (while the history of attempts
\* is complete).
C37_BestEffortAfterSuccess ==
  /\ [](/\ \A i \in 1..Len(us.calls) :
             /\ us.calls[i].o = "ok"
             /\ Len(execLog) = MaxExec \/ C35_Attempted(us.calls[i].id)
        /\ \A id \in Ids :
             \/ Len(execLog) = MaxExec
             \/ Cardinality(C37_Calls(id))
                  <= Cardinality({i \in 1..Len(execLog) : execLog[i].id = id})
        /\ sched.pc # "stopped")
  /\ [][C37_Posted => (sched.pc = "reserve" /\ sched'.pc = "del_z")]_vars

\* Reservation 1 of user u1 was booked twice and its usage posted twice,
\* the first POST timing out.
C37_PostedTwice ==
  /\ Len(us.calls) = 2
  /\ us.calls[1].id = 1
  /\ us.calls[2].id = 1
  /\ us.calls[1].cb = "timeout"
  /\ 1 \in DOMAIN records
  /\ records[1].owner = "u1"

\* the book_token field of a BOOK body, as the upstream decodes it
C38_TokenOf(body) ==
  QueryUnescape(SubSeq(body, Len("book_token=") + 1,
                       IndexFrom(body, "&", 1) - 1))

\* C38: within one Reserve call the requests go out in the order FIND,
\* DETAIL, BOOK: FIND is the first request and the only FIND; a DETAIL is
\* sent only after a good FIND response and for a selected slot; a BOOK is
\* sent only directly after a good DETAIL response (one with
\* book_token.value) for the same slot, and carries exactly that token;
\* success is reported only on a BOOK response with a reservation_id.
C38_HandshakeOrder ==
  LET n == Len(rv.sent) IN
    /\ \A i \in 1..n : (rv.sent[i].step = "find") <=> (i = 1)
    /\ \A i \in 1..n :
         rv.sent[i].step = "detail"
           => /\ rv.sent[1].resp = "ok"
              /\ rv.sent[i].slot \in 1..Len(rv.slots)
              /\ rv.sent[i].config \in 1..Len(rv.slots)
    /\ \A i \in 1..n :
         rv.sent[i].step = "book"
           => /\ i > 1
              /\ rv.sent[i - 1].step = "detail"
              /\ rv.sent[i - 1].resp = "ok"
              /\ rv.sent[i - 1].token \in BookTokens
              /\ rv.sent[i - 1].slot = rv.sent[i].slot
              /\ rv.sent[i - 1].config = rv.sent[i].config
              /\ C38_TokenOf(rv.sent[i].body) = rv.sent[i - 1].token
    /\ rv.result = "booked"
         => /\ n >= 3
            /\ rv.sent[n].step = "book"
            /\ HasReservationId(rv.sent[n].resp)

\* FIND, then DETAIL and a refused BOOK for the first candidate, then DETAIL
\* with a token that needs escaping and the BOOK that succeeds.
C38_Witness ==
  /\ rv.pc = "done"
  /\ rv.result = "booked"
  /\ Len(rv.sent) = 5
  /\ rv.sent[3].resp = "non-2xx"
  /\ rv.sent[4].token = "a+b/c= d"
  /\ rv.sent[5].body
       = "book_token=a%2Bb%2Fc%3D+d&struct_payment_method="
           \o "%7B%22id%22%3A7%7D&source_id=resy.com-venue-details"

\* a request was sent after the BOOK response at position i
C39_Later(i) == i < Len(rv.sent)

C40_Replaying == ck.pc = "send" /\ ck.attempt > 0

\* C40: every replayed request carries each cookie name at most once, with
\* the value the session holds for it after the last merge.
C40_ReplayCarriesNameOnce ==
  C40_Replaying =>
    /\ \A i, j \in 1..Len(ck.req) :
         ck.req[i].name = ck.req[j].name => i = j
    /\ \A i \in 1..Len(ck.req) :
         \E k \in 1..Len(ck.jar) : ck.jar[k] = ck.req[i]

\* What the replay does carry: the cookies of the original request followed
\* by the session as it is now, in which every name occurs once; for every
\* name the last occurrence has the merged value, and the header does not
\* grow from one replay to the next beyond that.
C40_OriginalThenSession ==
  /\ \A i, j \in 1..Len(ck.jar) : ck.jar[i].name = ck.jar[j].name => i = j
  /\ C40_Replaying =>
       /\ ck.req = ck.orig \o ck.jar
       /\ \A i \in 1..Len(ck.req) :
            (\A j \in (i + 1)..Len(ck.req) : ck.req[j].name # ck.req[i].name)
              => \E k \in 1..Len(ck.jar) : ck.jar[k] = ck.req[i]

\* The session held nlbi_9=old when the request was built; the challenge
\* replaced it by nlbi_9=v4, and the replay carries both.
C40_StaleSentAgain ==
  /\ C40_Replaying
  /\ ck.req = <<[name |-> "session", value |-> "s0"],
                [name |-> "nlbi_9", value |-> "old"],
                [name |-> "session", value |-> "s0"],
                [name |-> "nlbi_9", value |-> "v4"]>>

====
